---- MODULE Spec2Model ----
(***************************************************************************)
(* Model of the license server (src/server.js): the JSON-file order store, *)
(* the license generator, and the HTTP handlers create-order, the payment  *)
(* webhook, and the admin list / approve / delete operations.              *)
(*                                                                         *)
(* Node runs each handler to its first real suspension point without       *)
(* interleaving, so a handler is one action up to `await fetch(...)` in     *)
(* sendEmail, and the continuation after the fetch settles is a second     *)
(* action (EmailDone).                                                     *)
(*                                                                         *)
(* A string is the sequence of its UTF-16 code units, as JavaScript has    *)
(* it.  A code unit is written as the character itself when it is a        *)
(* printable character of U+0020..U+007E or U+00A1..U+00FF, as "\t",       *)
(* "\n", "\f", "\r" for those four, and otherwise as "U+" and its four    *)
(* upper case hexadecimal digits: "U+0131" is the dotless i, "U+00A0"      *)
(* the no-break space, <<"U+D801", "U+DC28">> the character U+10428.       *)
(***************************************************************************)
EXTENDS Integers, Sequences, FiniteSets, TLC

(***************************************************************************)
(* Bounds of the model.                                                    *)
(***************************************************************************)
\* midnights the clock may pass after StartDate
MaxDays == 1
\* sendEmail calls that wait for the mail API at the same time in the
\* behaviours followed
MaxInflight == 1
\* the same, where the notifications themselves are examined (SpecNotify)
MaxWaiting == 2
\* the per-order counters of triggers, generations, commits and
\* notifications saturate here
MaxCount == 2

(***************************************************************************)
(* JavaScript values that arrive in a JSON body: a string, an integer      *)
(* number, or a missing property (undefined).                              *)
(***************************************************************************)
Undef == [t |-> "undef", s |-> <<>>, n |-> 0]
Str(s) == [t |-> "str", s |-> s, n |-> 0]
Num(n) == [t |-> "num", s |-> <<>>, n |-> n]

\* JavaScript truthiness, as used by `!machineId || !email || !type || !amount`
Truthy(v) ==
    CASE v.t = "undef" -> FALSE
      [] v.t = "str" -> v.s # <<>>
      [] v.t = "num" -> v.n # 0

Digits == <<"0", "1", "2", "3", "4", "5", "6", "7", "8", "9">>
DigitSet == {Digits[i] : i \in 1..10}
DigitVal(c) == (CHOOSE i \in 1..10 : Digits[i] = c) - 1

RECURSIVE NatToStr(_)
\* String(n) for an integer n >= 0
NatToStr(n) ==
    IF n < 10 THEN <<Digits[n + 1]>>
    ELSE NatToStr(n \div 10) \o <<Digits[(n % 10) + 1]>>

\* String(n) for an integer
IntToStr(n) == IF n < 0 THEN <<"-">> \o NatToStr(0 - n) ELSE NatToStr(n)

\* `${v}`: the string a template literal or `+` makes of a value
ToStr(v) ==
    CASE v.t = "str" -> v.s
      [] v.t = "num" -> IntToStr(v.n)
      [] v.t = "undef" -> <<"u", "n", "d", "e", "f", "i", "n", "e", "d">>

\* String.prototype.padStart(2, '0')
PadStart2(s) == IF Len(s) < 2 THEN <<"0">> \o s ELSE s

Lower == <<"a", "b", "c", "d", "e", "f", "g", "h", "i", "j", "k", "l", "m",
           "n", "o", "p", "q", "r", "s", "t", "u", "v", "w", "x", "y", "z">>
Upper == <<"A", "B", "C", "D", "E", "F", "G", "H", "I", "J", "K", "L", "M",
           "N", "O", "P", "Q", "R", "S", "T", "U", "V", "W", "X", "Y", "Z">>

\* String.prototype.toUpperCase beyond a-z: <<character, its upper case>> for
\* every character that toUpperCase changes (the uppercase mappings of
\* Unicode 17, UnicodeData.txt and the unconditional part of
\* SpecialCasing.txt, which Node 20 carries in its ICU data); a character
\* above U+FFFF is its two surrogates
UpperTable ==
    <<<<<<"µ">>, <<"U+039C">>>>, <<<<"ß">>, <<"S", "S">>>>,
      <<<<"à">>, <<"À">>>>, <<<<"á">>, <<"Á">>>>, <<<<"â">>, <<"Â">>>>,
      <<<<"ã">>, <<"Ã">>>>, <<<<"ä">>, <<"Ä">>>>, <<<<"å">>, <<"Å">>>>,
      <<<<"æ">>, <<"Æ">>>>, <<<<"ç">>, <<"Ç">>>>, <<<<"è">>, <<"È">>>>,
      <<<<"é">>, <<"É">>>>, <<<<"ê">>, <<"Ê">>>>, <<<<"ë">>, <<"Ë">>>>,
      <<<<"ì">>, <<"Ì">>>>, <<<<"í">>, <<"Í">>>>, <<<<"î">>, <<"Î">>>>,
      <<<<"ï">>, <<"Ï">>>>, <<<<"ð">>, <<"Ð">>>>, <<<<"ñ">>, <<"Ñ">>>>,
      <<<<"ò">>, <<"Ò">>>>, <<<<"ó">>, <<"Ó">>>>, <<<<"ô">>, <<"Ô">>>>,
      <<<<"õ">>, <<"Õ">>>>, <<<<"ö">>, <<"Ö">>>>, <<<<"ø">>, <<"Ø">>>>,
      <<<<"ù">>, <<"Ù">>>>, <<<<"ú">>, <<"Ú">>>>, <<<<"û">>, <<"Û">>>>,
      <<<<"ü">>, <<"Ü">>>>, <<<<"ý">>, <<"Ý">>>>, <<<<"þ">>, <<"Þ">>>>,
      <<<<"ÿ">>, <<"U+0178">>>>, <<<<"U+0101">>, <<"U+0100">>>>,
      <<<<"U+0103">>, <<"U+0102">>>>, <<<<"U+0105">>, <<"U+0104">>>>,
      <<<<"U+0107">>, <<"U+0106">>>>, <<<<"U+0109">>, <<"U+0108">>>>,
      <<<<"U+010B">>, <<"U+010A">>>>, <<<<"U+010D">>, <<"U+010C">>>>,
      <<<<"U+010F">>, <<"U+010E">>>>, <<<<"U+0111">>, <<"U+0110">>>>,
      <<<<"U+0113">>, <<"U+0112">>>>, <<<<"U+0115">>, <<"U+0114">>>>,
      <<<<"U+0117">>, <<"U+0116">>>>, <<<<"U+0119">>, <<"U+0118">>>>,
      <<<<"U+011B">>, <<"U+011A">>>>, <<<<"U+011D">>, <<"U+011C">>>>,
      <<<<"U+011F">>, <<"U+011E">>>>, <<<<"U+0121">>, <<"U+0120">>>>,
      <<<<"U+0123">>, <<"U+0122">>>>, <<<<"U+0125">>, <<"U+0124">>>>,
      <<<<"U+0127">>, <<"U+0126">>>>, <<<<"U+0129">>, <<"U+0128">>>>,
      <<<<"U+012B">>, <<"U+012A">>>>, <<<<"U+012D">>, <<"U+012C">>>>,
      <<<<"U+012F">>, <<"U+012E">>>>, <<<<"U+0131">>, <<"I">>>>,
      <<<<"U+0133">>, <<"U+0132">>>>, <<<<"U+0135">>, <<"U+0134">>>>,
      <<<<"U+0137">>, <<"U+0136">>>>, <<<<"U+013A">>, <<"U+0139">>>>,
      <<<<"U+013C">>, <<"U+013B">>>>, <<<<"U+013E">>, <<"U+013D">>>>,
      <<<<"U+0140">>, <<"U+013F">>>>, <<<<"U+0142">>, <<"U+0141">>>>,
      <<<<"U+0144">>, <<"U+0143">>>>, <<<<"U+0146">>, <<"U+0145">>>>,
      <<<<"U+0148">>, <<"U+0147">>>>, <<<<"U+0149">>, <<"U+02BC", "N">>>>,
      <<<<"U+014B">>, <<"U+014A">>>>, <<<<"U+014D">>, <<"U+014C">>>>,
      <<<<"U+014F">>, <<"U+014E">>>>, <<<<"U+0151">>, <<"U+0150">>>>,
      <<<<"U+0153">>, <<"U+0152">>>>, <<<<"U+0155">>, <<"U+0154">>>>,
      <<<<"U+0157">>, <<"U+0156">>>>, <<<<"U+0159">>, <<"U+0158">>>>,
      <<<<"U+015B">>, <<"U+015A">>>>, <<<<"U+015D">>, <<"U+015C">>>>,
      <<<<"U+015F">>, <<"U+015E">>>>, <<<<"U+0161">>, <<"U+0160">>>>,
      <<<<"U+0163">>, <<"U+0162">>>>, <<<<"U+0165">>, <<"U+0164">>>>,
      <<<<"U+0167">>, <<"U+0166">>>>, <<<<"U+0169">>, <<"U+0168">>>>,
      <<<<"U+016B">>, <<"U+016A">>>>, <<<<"U+016D">>, <<"U+016C">>>>,
      <<<<"U+016F">>, <<"U+016E">>>>, <<<<"U+0171">>, <<"U+0170">>>>,
      <<<<"U+0173">>, <<"U+0172">>>>, <<<<"U+0175">>, <<"U+0174">>>>,
      <<<<"U+0177">>, <<"U+0176">>>>, <<<<"U+017A">>, <<"U+0179">>>>,
      <<<<"U+017C">>, <<"U+017B">>>>, <<<<"U+017E">>, <<"U+017D">>>>,
      <<<<"U+017F">>, <<"S">>>>, <<<<"U+0180">>, <<"U+0243">>>>,
      <<<<"U+0183">>, <<"U+0182">>>>, <<<<"U+0185">>, <<"U+0184">>>>,
      <<<<"U+0188">>, <<"U+0187">>>>, <<<<"U+018C">>, <<"U+018B">>>>,
      <<<<"U+0192">>, <<"U+0191">>>>, <<<<"U+0195">>, <<"U+01F6">>>>,
      <<<<"U+0199">>, <<"U+0198">>>>, <<<<"U+019A">>, <<"U+023D">>>>,
      <<<<"U+019B">>, <<"U+A7DC">>>>, <<<<"U+019E">>, <<"U+0220">>>>,
      <<<<"U+01A1">>, <<"U+01A0">>>>, <<<<"U+01A3">>, <<"U+01A2">>>>,
      <<<<"U+01A5">>, <<"U+01A4">>>>, <<<<"U+01A8">>, <<"U+01A7">>>>,
      <<<<"U+01AD">>, <<"U+01AC">>>>, <<<<"U+01B0">>, <<"U+01AF">>>>,
      <<<<"U+01B4">>, <<"U+01B3">>>>, <<<<"U+01B6">>, <<"U+01B5">>>>,
      <<<<"U+01B9">>, <<"U+01B8">>>>, <<<<"U+01BD">>, <<"U+01BC">>>>,
      <<<<"U+01BF">>, <<"U+01F7">>>>, <<<<"U+01C5">>, <<"U+01C4">>>>,
      <<<<"U+01C6">>, <<"U+01C4">>>>, <<<<"U+01C8">>, <<"U+01C7">>>>,
      <<<<"U+01C9">>, <<"U+01C7">>>>, <<<<"U+01CB">>, <<"U+01CA">>>>,
      <<<<"U+01CC">>, <<"U+01CA">>>>, <<<<"U+01CE">>, <<"U+01CD">>>>,
      <<<<"U+01D0">>, <<"U+01CF">>>>, <<<<"U+01D2">>, <<"U+01D1">>>>,
      <<<<"U+01D4">>, <<"U+01D3">>>>, <<<<"U+01D6">>, <<"U+01D5">>>>,
      <<<<"U+01D8">>, <<"U+01D7">>>>, <<<<"U+01DA">>, <<"U+01D9">>>>,
      <<<<"U+01DC">>, <<"U+01DB">>>>, <<<<"U+01DD">>, <<"U+018E">>>>,
      <<<<"U+01DF">>, <<"U+01DE">>>>, <<<<"U+01E1">>, <<"U+01E0">>>>,
      <<<<"U+01E3">>, <<"U+01E2">>>>, <<<<"U+01E5">>, <<"U+01E4">>>>,
      <<<<"U+01E7">>, <<"U+01E6">>>>, <<<<"U+01E9">>, <<"U+01E8">>>>,
      <<<<"U+01EB">>, <<"U+01EA">>>>, <<<<"U+01ED">>, <<"U+01EC">>>>,
      <<<<"U+01EF">>, <<"U+01EE">>>>, <<<<"U+01F0">>, <<"J", "U+030C">>>>,
      <<<<"U+01F2">>, <<"U+01F1">>>>, <<<<"U+01F3">>, <<"U+01F1">>>>,
      <<<<"U+01F5">>, <<"U+01F4">>>>, <<<<"U+01F9">>, <<"U+01F8">>>>,
      <<<<"U+01FB">>, <<"U+01FA">>>>, <<<<"U+01FD">>, <<"U+01FC">>>>,
      <<<<"U+01FF">>, <<"U+01FE">>>>, <<<<"U+0201">>, <<"U+0200">>>>,
      <<<<"U+0203">>, <<"U+0202">>>>, <<<<"U+0205">>, <<"U+0204">>>>,
      <<<<"U+0207">>, <<"U+0206">>>>, <<<<"U+0209">>, <<"U+0208">>>>,
      <<<<"U+020B">>, <<"U+020A">>>>, <<<<"U+020D">>, <<"U+020C">>>>,
      <<<<"U+020F">>, <<"U+020E">>>>, <<<<"U+0211">>, <<"U+0210">>>>,
      <<<<"U+0213">>, <<"U+0212">>>>, <<<<"U+0215">>, <<"U+0214">>>>,
      <<<<"U+0217">>, <<"U+0216">>>>, <<<<"U+0219">>, <<"U+0218">>>>,
      <<<<"U+021B">>, <<"U+021A">>>>, <<<<"U+021D">>, <<"U+021C">>>>,
      <<<<"U+021F">>, <<"U+021E">>>>, <<<<"U+0223">>, <<"U+0222">>>>,
      <<<<"U+0225">>, <<"U+0224">>>>, <<<<"U+0227">>, <<"U+0226">>>>,
      <<<<"U+0229">>, <<"U+0228">>>>, <<<<"U+022B">>, <<"U+022A">>>>,
      <<<<"U+022D">>, <<"U+022C">>>>, <<<<"U+022F">>, <<"U+022E">>>>,
      <<<<"U+0231">>, <<"U+0230">>>>, <<<<"U+0233">>, <<"U+0232">>>>,
      <<<<"U+023C">>, <<"U+023B">>>>, <<<<"U+023F">>, <<"U+2C7E">>>>,
      <<<<"U+0240">>, <<"U+2C7F">>>>, <<<<"U+0242">>, <<"U+0241">>>>,
      <<<<"U+0247">>, <<"U+0246">>>>, <<<<"U+0249">>, <<"U+0248">>>>,
      <<<<"U+024B">>, <<"U+024A">>>>, <<<<"U+024D">>, <<"U+024C">>>>,
      <<<<"U+024F">>, <<"U+024E">>>>, <<<<"U+0250">>, <<"U+2C6F">>>>,
      <<<<"U+0251">>, <<"U+2C6D">>>>, <<<<"U+0252">>, <<"U+2C70">>>>,
      <<<<"U+0253">>, <<"U+0181">>>>, <<<<"U+0254">>, <<"U+0186">>>>,
      <<<<"U+0256">>, <<"U+0189">>>>, <<<<"U+0257">>, <<"U+018A">>>>,
      <<<<"U+0259">>, <<"U+018F">>>>, <<<<"U+025B">>, <<"U+0190">>>>,
      <<<<"U+025C">>, <<"U+A7AB">>>>, <<<<"U+0260">>, <<"U+0193">>>>,
      <<<<"U+0261">>, <<"U+A7AC">>>>, <<<<"U+0263">>, <<"U+0194">>>>,
      <<<<"U+0264">>, <<"U+A7CB">>>>, <<<<"U+0265">>, <<"U+A78D">>>>,
      <<<<"U+0266">>, <<"U+A7AA">>>>, <<<<"U+0268">>, <<"U+0197">>>>,
      <<<<"U+0269">>, <<"U+0196">>>>, <<<<"U+026A">>, <<"U+A7AE">>>>,
      <<<<"U+026B">>, <<"U+2C62">>>>, <<<<"U+026C">>, <<"U+A7AD">>>>,
      <<<<"U+026F">>, <<"U+019C">>>>, <<<<"U+0271">>, <<"U+2C6E">>>>,
      <<<<"U+0272">>, <<"U+019D">>>>, <<<<"U+0275">>, <<"U+019F">>>>,
      <<<<"U+027D">>, <<"U+2C64">>>>, <<<<"U+0280">>, <<"U+01A6">>>>,
      <<<<"U+0282">>, <<"U+A7C5">>>>, <<<<"U+0283">>, <<"U+01A9">>>>,
      <<<<"U+0287">>, <<"U+A7B1">>>>, <<<<"U+0288">>, <<"U+01AE">>>>,
      <<<<"U+0289">>, <<"U+0244">>>>, <<<<"U+028A">>, <<"U+01B1">>>>,
      <<<<"U+028B">>, <<"U+01B2">>>>, <<<<"U+028C">>, <<"U+0245">>>>,
      <<<<"U+0292">>, <<"U+01B7">>>>, <<<<"U+029D">>, <<"U+A7B2">>>>,
      <<<<"U+029E">>, <<"U+A7B0">>>>, <<<<"U+0345">>, <<"U+0399">>>>,
      <<<<"U+0371">>, <<"U+0370">>>>, <<<<"U+0373">>, <<"U+0372">>>>,
      <<<<"U+0377">>, <<"U+0376">>>>, <<<<"U+037B">>, <<"U+03FD">>>>,
      <<<<"U+037C">>, <<"U+03FE">>>>, <<<<"U+037D">>, <<"U+03FF">>>>,
      <<<<"U+0390">>, <<"U+0399", "U+0308", "U+0301">>>>,
      <<<<"U+03AC">>, <<"U+0386">>>>, <<<<"U+03AD">>, <<"U+0388">>>>,
      <<<<"U+03AE">>, <<"U+0389">>>>, <<<<"U+03AF">>, <<"U+038A">>>>,
      <<<<"U+03B0">>, <<"U+03A5", "U+0308", "U+0301">>>>,
      <<<<"U+03B1">>, <<"U+0391">>>>, <<<<"U+03B2">>, <<"U+0392">>>>,
      <<<<"U+03B3">>, <<"U+0393">>>>, <<<<"U+03B4">>, <<"U+0394">>>>,
      <<<<"U+03B5">>, <<"U+0395">>>>, <<<<"U+03B6">>, <<"U+0396">>>>,
      <<<<"U+03B7">>, <<"U+0397">>>>, <<<<"U+03B8">>, <<"U+0398">>>>,
      <<<<"U+03B9">>, <<"U+0399">>>>, <<<<"U+03BA">>, <<"U+039A">>>>,
      <<<<"U+03BB">>, <<"U+039B">>>>, <<<<"U+03BC">>, <<"U+039C">>>>,
      <<<<"U+03BD">>, <<"U+039D">>>>, <<<<"U+03BE">>, <<"U+039E">>>>,
      <<<<"U+03BF">>, <<"U+039F">>>>, <<<<"U+03C0">>, <<"U+03A0">>>>,
      <<<<"U+03C1">>, <<"U+03A1">>>>, <<<<"U+03C2">>, <<"U+03A3">>>>,
      <<<<"U+03C3">>, <<"U+03A3">>>>, <<<<"U+03C4">>, <<"U+03A4">>>>,
      <<<<"U+03C5">>, <<"U+03A5">>>>, <<<<"U+03C6">>, <<"U+03A6">>>>,
      <<<<"U+03C7">>, <<"U+03A7">>>>, <<<<"U+03C8">>, <<"U+03A8">>>>,
      <<<<"U+03C9">>, <<"U+03A9">>>>, <<<<"U+03CA">>, <<"U+03AA">>>>,
      <<<<"U+03CB">>, <<"U+03AB">>>>, <<<<"U+03CC">>, <<"U+038C">>>>,
      <<<<"U+03CD">>, <<"U+038E">>>>, <<<<"U+03CE">>, <<"U+038F">>>>,
      <<<<"U+03D0">>, <<"U+0392">>>>, <<<<"U+03D1">>, <<"U+0398">>>>,
      <<<<"U+03D5">>, <<"U+03A6">>>>, <<<<"U+03D6">>, <<"U+03A0">>>>,
      <<<<"U+03D7">>, <<"U+03CF">>>>, <<<<"U+03D9">>, <<"U+03D8">>>>,
      <<<<"U+03DB">>, <<"U+03DA">>>>, <<<<"U+03DD">>, <<"U+03DC">>>>,
      <<<<"U+03DF">>, <<"U+03DE">>>>, <<<<"U+03E1">>, <<"U+03E0">>>>,
      <<<<"U+03E3">>, <<"U+03E2">>>>, <<<<"U+03E5">>, <<"U+03E4">>>>,
      <<<<"U+03E7">>, <<"U+03E6">>>>, <<<<"U+03E9">>, <<"U+03E8">>>>,
      <<<<"U+03EB">>, <<"U+03EA">>>>, <<<<"U+03ED">>, <<"U+03EC">>>>,
      <<<<"U+03EF">>, <<"U+03EE">>>>, <<<<"U+03F0">>, <<"U+039A">>>>,
      <<<<"U+03F1">>, <<"U+03A1">>>>, <<<<"U+03F2">>, <<"U+03F9">>>>,
      <<<<"U+03F3">>, <<"U+037F">>>>, <<<<"U+03F5">>, <<"U+0395">>>>,
      <<<<"U+03F8">>, <<"U+03F7">>>>, <<<<"U+03FB">>, <<"U+03FA">>>>,
      <<<<"U+0430">>, <<"U+0410">>>>, <<<<"U+0431">>, <<"U+0411">>>>,
      <<<<"U+0432">>, <<"U+0412">>>>, <<<<"U+0433">>, <<"U+0413">>>>,
      <<<<"U+0434">>, <<"U+0414">>>>, <<<<"U+0435">>, <<"U+0415">>>>,
      <<<<"U+0436">>, <<"U+0416">>>>, <<<<"U+0437">>, <<"U+0417">>>>,
      <<<<"U+0438">>, <<"U+0418">>>>, <<<<"U+0439">>, <<"U+0419">>>>,
      <<<<"U+043A">>, <<"U+041A">>>>, <<<<"U+043B">>, <<"U+041B">>>>,
      <<<<"U+043C">>, <<"U+041C">>>>, <<<<"U+043D">>, <<"U+041D">>>>,
      <<<<"U+043E">>, <<"U+041E">>>>, <<<<"U+043F">>, <<"U+041F">>>>,
      <<<<"U+0440">>, <<"U+0420">>>>, <<<<"U+0441">>, <<"U+0421">>>>,
      <<<<"U+0442">>, <<"U+0422">>>>, <<<<"U+0443">>, <<"U+0423">>>>,
      <<<<"U+0444">>, <<"U+0424">>>>, <<<<"U+0445">>, <<"U+0425">>>>,
      <<<<"U+0446">>, <<"U+0426">>>>, <<<<"U+0447">>, <<"U+0427">>>>,
      <<<<"U+0448">>, <<"U+0428">>>>, <<<<"U+0449">>, <<"U+0429">>>>,
      <<<<"U+044A">>, <<"U+042A">>>>, <<<<"U+044B">>, <<"U+042B">>>>,
      <<<<"U+044C">>, <<"U+042C">>>>, <<<<"U+044D">>, <<"U+042D">>>>,
      <<<<"U+044E">>, <<"U+042E">>>>, <<<<"U+044F">>, <<"U+042F">>>>,
      <<<<"U+0450">>, <<"U+0400">>>>, <<<<"U+0451">>, <<"U+0401">>>>,
      <<<<"U+0452">>, <<"U+0402">>>>, <<<<"U+0453">>, <<"U+0403">>>>,
      <<<<"U+0454">>, <<"U+0404">>>>, <<<<"U+0455">>, <<"U+0405">>>>,
      <<<<"U+0456">>, <<"U+0406">>>>, <<<<"U+0457">>, <<"U+0407">>>>,
      <<<<"U+0458">>, <<"U+0408">>>>, <<<<"U+0459">>, <<"U+0409">>>>,
      <<<<"U+045A">>, <<"U+040A">>>>, <<<<"U+045B">>, <<"U+040B">>>>,
      <<<<"U+045C">>, <<"U+040C">>>>, <<<<"U+045D">>, <<"U+040D">>>>,
      <<<<"U+045E">>, <<"U+040E">>>>, <<<<"U+045F">>, <<"U+040F">>>>,
      <<<<"U+0461">>, <<"U+0460">>>>, <<<<"U+0463">>, <<"U+0462">>>>,
      <<<<"U+0465">>, <<"U+0464">>>>, <<<<"U+0467">>, <<"U+0466">>>>,
      <<<<"U+0469">>, <<"U+0468">>>>, <<<<"U+046B">>, <<"U+046A">>>>,
      <<<<"U+046D">>, <<"U+046C">>>>, <<<<"U+046F">>, <<"U+046E">>>>,
      <<<<"U+0471">>, <<"U+0470">>>>, <<<<"U+0473">>, <<"U+0472">>>>,
      <<<<"U+0475">>, <<"U+0474">>>>, <<<<"U+0477">>, <<"U+0476">>>>,
      <<<<"U+0479">>, <<"U+0478">>>>, <<<<"U+047B">>, <<"U+047A">>>>,
      <<<<"U+047D">>, <<"U+047C">>>>, <<<<"U+047F">>, <<"U+047E">>>>,
      <<<<"U+0481">>, <<"U+0480">>>>, <<<<"U+048B">>, <<"U+048A">>>>,
      <<<<"U+048D">>, <<"U+048C">>>>, <<<<"U+048F">>, <<"U+048E">>>>,
      <<<<"U+0491">>, <<"U+0490">>>>, <<<<"U+0493">>, <<"U+0492">>>>,
      <<<<"U+0495">>, <<"U+0494">>>>, <<<<"U+0497">>, <<"U+0496">>>>,
      <<<<"U+0499">>, <<"U+0498">>>>, <<<<"U+049B">>, <<"U+049A">>>>,
      <<<<"U+049D">>, <<"U+049C">>>>, <<<<"U+049F">>, <<"U+049E">>>>,
      <<<<"U+04A1">>, <<"U+04A0">>>>, <<<<"U+04A3">>, <<"U+04A2">>>>,
      <<<<"U+04A5">>, <<"U+04A4">>>>, <<<<"U+04A7">>, <<"U+04A6">>>>,
      <<<<"U+04A9">>, <<"U+04A8">>>>, <<<<"U+04AB">>, <<"U+04AA">>>>,
      <<<<"U+04AD">>, <<"U+04AC">>>>, <<<<"U+04AF">>, <<"U+04AE">>>>,
      <<<<"U+04B1">>, <<"U+04B0">>>>, <<<<"U+04B3">>, <<"U+04B2">>>>,
      <<<<"U+04B5">>, <<"U+04B4">>>>, <<<<"U+04B7">>, <<"U+04B6">>>>,
      <<<<"U+04B9">>, <<"U+04B8">>>>, <<<<"U+04BB">>, <<"U+04BA">>>>,
      <<<<"U+04BD">>, <<"U+04BC">>>>, <<<<"U+04BF">>, <<"U+04BE">>>>,
      <<<<"U+04C2">>, <<"U+04C1">>>>, <<<<"U+04C4">>, <<"U+04C3">>>>,
      <<<<"U+04C6">>, <<"U+04C5">>>>, <<<<"U+04C8">>, <<"U+04C7">>>>,
      <<<<"U+04CA">>, <<"U+04C9">>>>, <<<<"U+04CC">>, <<"U+04CB">>>>,
      <<<<"U+04CE">>, <<"U+04CD">>>>, <<<<"U+04CF">>, <<"U+04C0">>>>,
      <<<<"U+04D1">>, <<"U+04D0">>>>, <<<<"U+04D3">>, <<"U+04D2">>>>,
      <<<<"U+04D5">>, <<"U+04D4">>>>, <<<<"U+04D7">>, <<"U+04D6">>>>,
      <<<<"U+04D9">>, <<"U+04D8">>>>, <<<<"U+04DB">>, <<"U+04DA">>>>,
      <<<<"U+04DD">>, <<"U+04DC">>>>, <<<<"U+04DF">>, <<"U+04DE">>>>,
      <<<<"U+04E1">>, <<"U+04E0">>>>, <<<<"U+04E3">>, <<"U+04E2">>>>,
      <<<<"U+04E5">>, <<"U+04E4">>>>, <<<<"U+04E7">>, <<"U+04E6">>>>,
      <<<<"U+04E9">>, <<"U+04E8">>>>, <<<<"U+04EB">>, <<"U+04EA">>>>,
      <<<<"U+04ED">>, <<"U+04EC">>>>, <<<<"U+04EF">>, <<"U+04EE">>>>,
      <<<<"U+04F1">>, <<"U+04F0">>>>, <<<<"U+04F3">>, <<"U+04F2">>>>,
      <<<<"U+04F5">>, <<"U+04F4">>>>, <<<<"U+04F7">>, <<"U+04F6">>>>,
      <<<<"U+04F9">>, <<"U+04F8">>>>, <<<<"U+04FB">>, <<"U+04FA">>>>,
      <<<<"U+04FD">>, <<"U+04FC">>>>, <<<<"U+04FF">>, <<"U+04FE">>>>,
      <<<<"U+0501">>, <<"U+0500">>>>, <<<<"U+0503">>, <<"U+0502">>>>,
      <<<<"U+0505">>, <<"U+0504">>>>, <<<<"U+0507">>, <<"U+0506">>>>,
      <<<<"U+0509">>, <<"U+0508">>>>, <<<<"U+050B">>, <<"U+050A">>>>,
      <<<<"U+050D">>, <<"U+050C">>>>, <<<<"U+050F">>, <<"U+050E">>>>,
      <<<<"U+0511">>, <<"U+0510">>>>, <<<<"U+0513">>, <<"U+0512">>>>,
      <<<<"U+0515">>, <<"U+0514">>>>, <<<<"U+0517">>, <<"U+0516">>>>,
      <<<<"U+0519">>, <<"U+0518">>>>, <<<<"U+051B">>, <<"U+051A">>>>,
      <<<<"U+051D">>, <<"U+051C">>>>, <<<<"U+051F">>, <<"U+051E">>>>,
      <<<<"U+0521">>, <<"U+0520">>>>, <<<<"U+0523">>, <<"U+0522">>>>,
      <<<<"U+0525">>, <<"U+0524">>>>, <<<<"U+0527">>, <<"U+0526">>>>,
      <<<<"U+0529">>, <<"U+0528">>>>, <<<<"U+052B">>, <<"U+052A">>>>,
      <<<<"U+052D">>, <<"U+052C">>>>, <<<<"U+052F">>, <<"U+052E">>>>,
      <<<<"U+0561">>, <<"U+0531">>>>, <<<<"U+0562">>, <<"U+0532">>>>,
      <<<<"U+0563">>, <<"U+0533">>>>, <<<<"U+0564">>, <<"U+0534">>>>,
      <<<<"U+0565">>, <<"U+0535">>>>, <<<<"U+0566">>, <<"U+0536">>>>,
      <<<<"U+0567">>, <<"U+0537">>>>, <<<<"U+0568">>, <<"U+0538">>>>,
      <<<<"U+0569">>, <<"U+0539">>>>, <<<<"U+056A">>, <<"U+053A">>>>,
      <<<<"U+056B">>, <<"U+053B">>>>, <<<<"U+056C">>, <<"U+053C">>>>,
      <<<<"U+056D">>, <<"U+053D">>>>, <<<<"U+056E">>, <<"U+053E">>>>,
      <<<<"U+056F">>, <<"U+053F">>>>, <<<<"U+0570">>, <<"U+0540">>>>,
      <<<<"U+0571">>, <<"U+0541">>>>, <<<<"U+0572">>, <<"U+0542">>>>,
      <<<<"U+0573">>, <<"U+0543">>>>, <<<<"U+0574">>, <<"U+0544">>>>,
      <<<<"U+0575">>, <<"U+0545">>>>, <<<<"U+0576">>, <<"U+0546">>>>,
      <<<<"U+0577">>, <<"U+0547">>>>, <<<<"U+0578">>, <<"U+0548">>>>,
      <<<<"U+0579">>, <<"U+0549">>>>, <<<<"U+057A">>, <<"U+054A">>>>,
      <<<<"U+057B">>, <<"U+054B">>>>, <<<<"U+057C">>, <<"U+054C">>>>,
      <<<<"U+057D">>, <<"U+054D">>>>, <<<<"U+057E">>, <<"U+054E">>>>,
      <<<<"U+057F">>, <<"U+054F">>>>, <<<<"U+0580">>, <<"U+0550">>>>,
      <<<<"U+0581">>, <<"U+0551">>>>, <<<<"U+0582">>, <<"U+0552">>>>,
      <<<<"U+0583">>, <<"U+0553">>>>, <<<<"U+0584">>, <<"U+0554">>>>,
      <<<<"U+0585">>, <<"U+0555">>>>, <<<<"U+0586">>, <<"U+0556">>>>,
      <<<<"U+0587">>, <<"U+0535", "U+0552">>>>,
      <<<<"U+10D0">>, <<"U+1C90">>>>, <<<<"U+10D1">>, <<"U+1C91">>>>,
      <<<<"U+10D2">>, <<"U+1C92">>>>, <<<<"U+10D3">>, <<"U+1C93">>>>,
      <<<<"U+10D4">>, <<"U+1C94">>>>, <<<<"U+10D5">>, <<"U+1C95">>>>,
      <<<<"U+10D6">>, <<"U+1C96">>>>, <<<<"U+10D7">>, <<"U+1C97">>>>,
      <<<<"U+10D8">>, <<"U+1C98">>>>, <<<<"U+10D9">>, <<"U+1C99">>>>,
      <<<<"U+10DA">>, <<"U+1C9A">>>>, <<<<"U+10DB">>, <<"U+1C9B">>>>,
      <<<<"U+10DC">>, <<"U+1C9C">>>>, <<<<"U+10DD">>, <<"U+1C9D">>>>,
      <<<<"U+10DE">>, <<"U+1C9E">>>>, <<<<"U+10DF">>, <<"U+1C9F">>>>,
      <<<<"U+10E0">>, <<"U+1CA0">>>>, <<<<"U+10E1">>, <<"U+1CA1">>>>,
      <<<<"U+10E2">>, <<"U+1CA2">>>>, <<<<"U+10E3">>, <<"U+1CA3">>>>,
      <<<<"U+10E4">>, <<"U+1CA4">>>>, <<<<"U+10E5">>, <<"U+1CA5">>>>,
      <<<<"U+10E6">>, <<"U+1CA6">>>>, <<<<"U+10E7">>, <<"U+1CA7">>>>,
      <<<<"U+10E8">>, <<"U+1CA8">>>>, <<<<"U+10E9">>, <<"U+1CA9">>>>,
      <<<<"U+10EA">>, <<"U+1CAA">>>>, <<<<"U+10EB">>, <<"U+1CAB">>>>,
      <<<<"U+10EC">>, <<"U+1CAC">>>>, <<<<"U+10ED">>, <<"U+1CAD">>>>,
      <<<<"U+10EE">>, <<"U+1CAE">>>>, <<<<"U+10EF">>, <<"U+1CAF">>>>,
      <<<<"U+10F0">>, <<"U+1CB0">>>>, <<<<"U+10F1">>, <<"U+1CB1">>>>,
      <<<<"U+10F2">>, <<"U+1CB2">>>>, <<<<"U+10F3">>, <<"U+1CB3">>>>,
      <<<<"U+10F4">>, <<"U+1CB4">>>>, <<<<"U+10F5">>, <<"U+1CB5">>>>,
      <<<<"U+10F6">>, <<"U+1CB6">>>>, <<<<"U+10F7">>, <<"U+1CB7">>>>,
      <<<<"U+10F8">>, <<"U+1CB8">>>>, <<<<"U+10F9">>, <<"U+1CB9">>>>,
      <<<<"U+10FA">>, <<"U+1CBA">>>>, <<<<"U+10FD">>, <<"U+1CBD">>>>,
      <<<<"U+10FE">>, <<"U+1CBE">>>>, <<<<"U+10FF">>, <<"U+1CBF">>>>,
      <<<<"U+13F8">>, <<"U+13F0">>>>, <<<<"U+13F9">>, <<"U+13F1">>>>,
      <<<<"U+13FA">>, <<"U+13F2">>>>, <<<<"U+13FB">>, <<"U+13F3">>>>,
      <<<<"U+13FC">>, <<"U+13F4">>>>, <<<<"U+13FD">>, <<"U+13F5">>>>,
      <<<<"U+1C80">>, <<"U+0412">>>>, <<<<"U+1C81">>, <<"U+0414">>>>,
      <<<<"U+1C82">>, <<"U+041E">>>>, <<<<"U+1C83">>, <<"U+0421">>>>,
      <<<<"U+1C84">>, <<"U+0422">>>>, <<<<"U+1C85">>, <<"U+0422">>>>,
      <<<<"U+1C86">>, <<"U+042A">>>>, <<<<"U+1C87">>, <<"U+0462">>>>,
      <<<<"U+1C88">>, <<"U+A64A">>>>, <<<<"U+1C8A">>, <<"U+1C89">>>>,
      <<<<"U+1D79">>, <<"U+A77D">>>>, <<<<"U+1D7D">>, <<"U+2C63">>>>,
      <<<<"U+1D8E">>, <<"U+A7C6">>>>, <<<<"U+1E01">>, <<"U+1E00">>>>,
      <<<<"U+1E03">>, <<"U+1E02">>>>, <<<<"U+1E05">>, <<"U+1E04">>>>,
      <<<<"U+1E07">>, <<"U+1E06">>>>, <<<<"U+1E09">>, <<"U+1E08">>>>,
      <<<<"U+1E0B">>, <<"U+1E0A">>>>, <<<<"U+1E0D">>, <<"U+1E0C">>>>,
      <<<<"U+1E0F">>, <<"U+1E0E">>>>, <<<<"U+1E11">>, <<"U+1E10">>>>,
      <<<<"U+1E13">>, <<"U+1E12">>>>, <<<<"U+1E15">>, <<"U+1E14">>>>,
      <<<<"U+1E17">>, <<"U+1E16">>>>, <<<<"U+1E19">>, <<"U+1E18">>>>,
      <<<<"U+1E1B">>, <<"U+1E1A">>>>, <<<<"U+1E1D">>, <<"U+1E1C">>>>,
      <<<<"U+1E1F">>, <<"U+1E1E">>>>, <<<<"U+1E21">>, <<"U+1E20">>>>,
      <<<<"U+1E23">>, <<"U+1E22">>>>, <<<<"U+1E25">>, <<"U+1E24">>>>,
      <<<<"U+1E27">>, <<"U+1E26">>>>, <<<<"U+1E29">>, <<"U+1E28">>>>,
      <<<<"U+1E2B">>, <<"U+1E2A">>>>, <<<<"U+1E2D">>, <<"U+1E2C">>>>,
      <<<<"U+1E2F">>, <<"U+1E2E">>>>, <<<<"U+1E31">>, <<"U+1E30">>>>,
      <<<<"U+1E33">>, <<"U+1E32">>>>, <<<<"U+1E35">>, <<"U+1E34">>>>,
      <<<<"U+1E37">>, <<"U+1E36">>>>, <<<<"U+1E39">>, <<"U+1E38">>>>,
      <<<<"U+1E3B">>, <<"U+1E3A">>>>, <<<<"U+1E3D">>, <<"U+1E3C">>>>,
      <<<<"U+1E3F">>, <<"U+1E3E">>>>, <<<<"U+1E41">>, <<"U+1E40">>>>,
      <<<<"U+1E43">>, <<"U+1E42">>>>, <<<<"U+1E45">>, <<"U+1E44">>>>,
      <<<<"U+1E47">>, <<"U+1E46">>>>, <<<<"U+1E49">>, <<"U+1E48">>>>,
      <<<<"U+1E4B">>, <<"U+1E4A">>>>, <<<<"U+1E4D">>, <<"U+1E4C">>>>,
      <<<<"U+1E4F">>, <<"U+1E4E">>>>, <<<<"U+1E51">>, <<"U+1E50">>>>,
      <<<<"U+1E53">>, <<"U+1E52">>>>, <<<<"U+1E55">>, <<"U+1E54">>>>,
      <<<<"U+1E57">>, <<"U+1E56">>>>, <<<<"U+1E59">>, <<"U+1E58">>>>,
      <<<<"U+1E5B">>, <<"U+1E5A">>>>, <<<<"U+1E5D">>, <<"U+1E5C">>>>,
      <<<<"U+1E5F">>, <<"U+1E5E">>>>, <<<<"U+1E61">>, <<"U+1E60">>>>,
      <<<<"U+1E63">>, <<"U+1E62">>>>, <<<<"U+1E65">>, <<"U+1E64">>>>,
      <<<<"U+1E67">>, <<"U+1E66">>>>, <<<<"U+1E69">>, <<"U+1E68">>>>,
      <<<<"U+1E6B">>, <<"U+1E6A">>>>, <<<<"U+1E6D">>, <<"U+1E6C">>>>,
      <<<<"U+1E6F">>, <<"U+1E6E">>>>, <<<<"U+1E71">>, <<"U+1E70">>>>,
      <<<<"U+1E73">>, <<"U+1E72">>>>, <<<<"U+1E75">>, <<"U+1E74">>>>,
      <<<<"U+1E77">>, <<"U+1E76">>>>, <<<<"U+1E79">>, <<"U+1E78">>>>,
      <<<<"U+1E7B">>, <<"U+1E7A">>>>, <<<<"U+1E7D">>, <<"U+1E7C">>>>,
      <<<<"U+1E7F">>, <<"U+1E7E">>>>, <<<<"U+1E81">>, <<"U+1E80">>>>,
      <<<<"U+1E83">>, <<"U+1E82">>>>, <<<<"U+1E85">>, <<"U+1E84">>>>,
      <<<<"U+1E87">>, <<"U+1E86">>>>, <<<<"U+1E89">>, <<"U+1E88">>>>,
      <<<<"U+1E8B">>, <<"U+1E8A">>>>, <<<<"U+1E8D">>, <<"U+1E8C">>>>,
      <<<<"U+1E8F">>, <<"U+1E8E">>>>, <<<<"U+1E91">>, <<"U+1E90">>>>,
      <<<<"U+1E93">>, <<"U+1E92">>>>, <<<<"U+1E95">>, <<"U+1E94">>>>,
      <<<<"U+1E96">>, <<"H", "U+0331">>>>,
      <<<<"U+1E97">>, <<"T", "U+0308">>>>,
      <<<<"U+1E98">>, <<"W", "U+030A">>>>,
      <<<<"U+1E99">>, <<"Y", "U+030A">>>>,
      <<<<"U+1E9A">>, <<"A", "U+02BE">>>>, <<<<"U+1E9B">>, <<"U+1E60">>>>,
      <<<<"U+1EA1">>, <<"U+1EA0">>>>, <<<<"U+1EA3">>, <<"U+1EA2">>>>,
      <<<<"U+1EA5">>, <<"U+1EA4">>>>, <<<<"U+1EA7">>, <<"U+1EA6">>>>,
      <<<<"U+1EA9">>, <<"U+1EA8">>>>, <<<<"U+1EAB">>, <<"U+1EAA">>>>,
      <<<<"U+1EAD">>, <<"U+1EAC">>>>, <<<<"U+1EAF">>, <<"U+1EAE">>>>,
      <<<<"U+1EB1">>, <<"U+1EB0">>>>, <<<<"U+1EB3">>, <<"U+1EB2">>>>,
      <<<<"U+1EB5">>, <<"U+1EB4">>>>, <<<<"U+1EB7">>, <<"U+1EB6">>>>,
      <<<<"U+1EB9">>, <<"U+1EB8">>>>, <<<<"U+1EBB">>, <<"U+1EBA">>>>,
      <<<<"U+1EBD">>, <<"U+1EBC">>>>, <<<<"U+1EBF">>, <<"U+1EBE">>>>,
      <<<<"U+1EC1">>, <<"U+1EC0">>>>, <<<<"U+1EC3">>, <<"U+1EC2">>>>,
      <<<<"U+1EC5">>, <<"U+1EC4">>>>, <<<<"U+1EC7">>, <<"U+1EC6">>>>,
      <<<<"U+1EC9">>, <<"U+1EC8">>>>, <<<<"U+1ECB">>, <<"U+1ECA">>>>,
      <<<<"U+1ECD">>, <<"U+1ECC">>>>, <<<<"U+1ECF">>, <<"U+1ECE">>>>,
      <<<<"U+1ED1">>, <<"U+1ED0">>>>, <<<<"U+1ED3">>, <<"U+1ED2">>>>,
      <<<<"U+1ED5">>, <<"U+1ED4">>>>, <<<<"U+1ED7">>, <<"U+1ED6">>>>,
      <<<<"U+1ED9">>, <<"U+1ED8">>>>, <<<<"U+1EDB">>, <<"U+1EDA">>>>,
      <<<<"U+1EDD">>, <<"U+1EDC">>>>, <<<<"U+1EDF">>, <<"U+1EDE">>>>,
      <<<<"U+1EE1">>, <<"U+1EE0">>>>, <<<<"U+1EE3">>, <<"U+1EE2">>>>,
      <<<<"U+1EE5">>, <<"U+1EE4">>>>, <<<<"U+1EE7">>, <<"U+1EE6">>>>,
      <<<<"U+1EE9">>, <<"U+1EE8">>>>, <<<<"U+1EEB">>, <<"U+1EEA">>>>,
      <<<<"U+1EED">>, <<"U+1EEC">>>>, <<<<"U+1EEF">>, <<"U+1EEE">>>>,
      <<<<"U+1EF1">>, <<"U+1EF0">>>>, <<<<"U+1EF3">>, <<"U+1EF2">>>>,
      <<<<"U+1EF5">>, <<"U+1EF4">>>>, <<<<"U+1EF7">>, <<"U+1EF6">>>>,
      <<<<"U+1EF9">>, <<"U+1EF8">>>>, <<<<"U+1EFB">>, <<"U+1EFA">>>>,
      <<<<"U+1EFD">>, <<"U+1EFC">>>>, <<<<"U+1EFF">>, <<"U+1EFE">>>>,
      <<<<"U+1F00">>, <<"U+1F08">>>>, <<<<"U+1F01">>, <<"U+1F09">>>>,
      <<<<"U+1F02">>, <<"U+1F0A">>>>, <<<<"U+1F03">>, <<"U+1F0B">>>>,
      <<<<"U+1F04">>, <<"U+1F0C">>>>, <<<<"U+1F05">>, <<"U+1F0D">>>>,
      <<<<"U+1F06">>, <<"U+1F0E">>>>, <<<<"U+1F07">>, <<"U+1F0F">>>>,
      <<<<"U+1F10">>, <<"U+1F18">>>>, <<<<"U+1F11">>, <<"U+1F19">>>>,
      <<<<"U+1F12">>, <<"U+1F1A">>>>, <<<<"U+1F13">>, <<"U+1F1B">>>>,
      <<<<"U+1F14">>, <<"U+1F1C">>>>, <<<<"U+1F15">>, <<"U+1F1D">>>>,
      <<<<"U+1F20">>, <<"U+1F28">>>>, <<<<"U+1F21">>, <<"U+1F29">>>>,
      <<<<"U+1F22">>, <<"U+1F2A">>>>, <<<<"U+1F23">>, <<"U+1F2B">>>>,
      <<<<"U+1F24">>, <<"U+1F2C">>>>, <<<<"U+1F25">>, <<"U+1F2D">>>>,
      <<<<"U+1F26">>, <<"U+1F2E">>>>, <<<<"U+1F27">>, <<"U+1F2F">>>>,
      <<<<"U+1F30">>, <<"U+1F38">>>>, <<<<"U+1F31">>, <<"U+1F39">>>>,
      <<<<"U+1F32">>, <<"U+1F3A">>>>, <<<<"U+1F33">>, <<"U+1F3B">>>>,
      <<<<"U+1F34">>, <<"U+1F3C">>>>, <<<<"U+1F35">>, <<"U+1F3D">>>>,
      <<<<"U+1F36">>, <<"U+1F3E">>>>, <<<<"U+1F37">>, <<"U+1F3F">>>>,
      <<<<"U+1F40">>, <<"U+1F48">>>>, <<<<"U+1F41">>, <<"U+1F49">>>>,
      <<<<"U+1F42">>, <<"U+1F4A">>>>, <<<<"U+1F43">>, <<"U+1F4B">>>>,
      <<<<"U+1F44">>, <<"U+1F4C">>>>, <<<<"U+1F45">>, <<"U+1F4D">>>>,
      <<<<"U+1F50">>, <<"U+03A5", "U+0313">>>>,
      <<<<"U+1F51">>, <<"U+1F59">>>>,
      <<<<"U+1F52">>, <<"U+03A5", "U+0313", "U+0300">>>>,
      <<<<"U+1F53">>, <<"U+1F5B">>>>,
      <<<<"U+1F54">>, <<"U+03A5", "U+0313", "U+0301">>>>,
      <<<<"U+1F55">>, <<"U+1F5D">>>>,
      <<<<"U+1F56">>, <<"U+03A5", "U+0313", "U+0342">>>>,
      <<<<"U+1F57">>, <<"U+1F5F">>>>, <<<<"U+1F60">>, <<"U+1F68">>>>,
      <<<<"U+1F61">>, <<"U+1F69">>>>, <<<<"U+1F62">>, <<"U+1F6A">>>>,
      <<<<"U+1F63">>, <<"U+1F6B">>>>, <<<<"U+1F64">>, <<"U+1F6C">>>>,
      <<<<"U+1F65">>, <<"U+1F6D">>>>, <<<<"U+1F66">>, <<"U+1F6E">>>>,
      <<<<"U+1F67">>, <<"U+1F6F">>>>, <<<<"U+1F70">>, <<"U+1FBA">>>>,
      <<<<"U+1F71">>, <<"U+1FBB">>>>, <<<<"U+1F72">>, <<"U+1FC8">>>>,
      <<<<"U+1F73">>, <<"U+1FC9">>>>, <<<<"U+1F74">>, <<"U+1FCA">>>>,
      <<<<"U+1F75">>, <<"U+1FCB">>>>, <<<<"U+1F76">>, <<"U+1FDA">>>>,
      <<<<"U+1F77">>, <<"U+1FDB">>>>, <<<<"U+1F78">>, <<"U+1FF8">>>>,
      <<<<"U+1F79">>, <<"U+1FF9">>>>, <<<<"U+1F7A">>, <<"U+1FEA">>>>,
      <<<<"U+1F7B">>, <<"U+1FEB">>>>, <<<<"U+1F7C">>, <<"U+1FFA">>>>,
      <<<<"U+1F7D">>, <<"U+1FFB">>>>,
      <<<<"U+1F80">>, <<"U+1F08", "U+0399">>>>,
      <<<<"U+1F81">>, <<"U+1F09", "U+0399">>>>,
      <<<<"U+1F82">>, <<"U+1F0A", "U+0399">>>>,
      <<<<"U+1F83">>, <<"U+1F0B", "U+0399">>>>,
      <<<<"U+1F84">>, <<"U+1F0C", "U+0399">>>>,
      <<<<"U+1F85">>, <<"U+1F0D", "U+0399">>>>,
      <<<<"U+1F86">>, <<"U+1F0E", "U+0399">>>>,
      <<<<"U+1F87">>, <<"U+1F0F", "U+0399">>>>,
      <<<<"U+1F88">>, <<"U+1F08", "U+0399">>>>,
      <<<<"U+1F89">>, <<"U+1F09", "U+0399">>>>,
      <<<<"U+1F8A">>, <<"U+1F0A", "U+0399">>>>,
      <<<<"U+1F8B">>, <<"U+1F0B", "U+0399">>>>,
      <<<<"U+1F8C">>, <<"U+1F0C", "U+0399">>>>,
      <<<<"U+1F8D">>, <<"U+1F0D", "U+0399">>>>,
      <<<<"U+1F8E">>, <<"U+1F0E", "U+0399">>>>,
      <<<<"U+1F8F">>, <<"U+1F0F", "U+0399">>>>,
      <<<<"U+1F90">>, <<"U+1F28", "U+0399">>>>,
      <<<<"U+1F91">>, <<"U+1F29", "U+0399">>>>,
      <<<<"U+1F92">>, <<"U+1F2A", "U+0399">>>>,
      <<<<"U+1F93">>, <<"U+1F2B", "U+0399">>>>,
      <<<<"U+1F94">>, <<"U+1F2C", "U+0399">>>>,
      <<<<"U+1F95">>, <<"U+1F2D", "U+0399">>>>,
      <<<<"U+1F96">>, <<"U+1F2E", "U+0399">>>>,
      <<<<"U+1F97">>, <<"U+1F2F", "U+0399">>>>,
      <<<<"U+1F98">>, <<"U+1F28", "U+0399">>>>,
      <<<<"U+1F99">>, <<"U+1F29", "U+0399">>>>,
      <<<<"U+1F9A">>, <<"U+1F2A", "U+0399">>>>,
      <<<<"U+1F9B">>, <<"U+1F2B", "U+0399">>>>,
      <<<<"U+1F9C">>, <<"U+1F2C", "U+0399">>>>,
      <<<<"U+1F9D">>, <<"U+1F2D", "U+0399">>>>,
      <<<<"U+1F9E">>, <<"U+1F2E", "U+0399">>>>,
      <<<<"U+1F9F">>, <<"U+1F2F", "U+0399">>>>,
      <<<<"U+1FA0">>, <<"U+1F68", "U+0399">>>>,
      <<<<"U+1FA1">>, <<"U+1F69", "U+0399">>>>,
      <<<<"U+1FA2">>, <<"U+1F6A", "U+0399">>>>,
      <<<<"U+1FA3">>, <<"U+1F6B", "U+0399">>>>,
      <<<<"U+1FA4">>, <<"U+1F6C", "U+0399">>>>,
      <<<<"U+1FA5">>, <<"U+1F6D", "U+0399">>>>,
      <<<<"U+1FA6">>, <<"U+1F6E", "U+0399">>>>,
      <<<<"U+1FA7">>, <<"U+1F6F", "U+0399">>>>,
      <<<<"U+1FA8">>, <<"U+1F68", "U+0399">>>>,
      <<<<"U+1FA9">>, <<"U+1F69", "U+0399">>>>,
      <<<<"U+1FAA">>, <<"U+1F6A", "U+0399">>>>,
      <<<<"U+1FAB">>, <<"U+1F6B", "U+0399">>>>,
      <<<<"U+1FAC">>, <<"U+1F6C", "U+0399">>>>,
      <<<<"U+1FAD">>, <<"U+1F6D", "U+0399">>>>,
      <<<<"U+1FAE">>, <<"U+1F6E", "U+0399">>>>,
      <<<<"U+1FAF">>, <<"U+1F6F", "U+0399">>>>,
      <<<<"U+1FB0">>, <<"U+1FB8">>>>, <<<<"U+1FB1">>, <<"U+1FB9">>>>,
      <<<<"U+1FB2">>, <<"U+1FBA", "U+0399">>>>,
      <<<<"U+1FB3">>, <<"U+0391", "U+0399">>>>,
      <<<<"U+1FB4">>, <<"U+0386", "U+0399">>>>,
      <<<<"U+1FB6">>, <<"U+0391", "U+0342">>>>,
      <<<<"U+1FB7">>, <<"U+0391", "U+0342", "U+0399">>>>,
      <<<<"U+1FBC">>, <<"U+0391", "U+0399">>>>,
      <<<<"U+1FBE">>, <<"U+0399">>>>,
      <<<<"U+1FC2">>, <<"U+1FCA", "U+0399">>>>,
      <<<<"U+1FC3">>, <<"U+0397", "U+0399">>>>,
      <<<<"U+1FC4">>, <<"U+0389", "U+0399">>>>,
      <<<<"U+1FC6">>, <<"U+0397", "U+0342">>>>,
      <<<<"U+1FC7">>, <<"U+0397", "U+0342", "U+0399">>>>,
      <<<<"U+1FCC">>, <<"U+0397", "U+0399">>>>,
      <<<<"U+1FD0">>, <<"U+1FD8">>>>, <<<<"U+1FD1">>, <<"U+1FD9">>>>,
      <<<<"U+1FD2">>, <<"U+0399", "U+0308", "U+0300">>>>,
      <<<<"U+1FD3">>, <<"U+0399", "U+0308", "U+0301">>>>,
      <<<<"U+1FD6">>, <<"U+0399", "U+0342">>>>,
      <<<<"U+1FD7">>, <<"U+0399", "U+0308", "U+0342">>>>,
      <<<<"U+1FE0">>, <<"U+1FE8">>>>, <<<<"U+1FE1">>, <<"U+1FE9">>>>,
      <<<<"U+1FE2">>, <<"U+03A5", "U+0308", "U+0300">>>>,
      <<<<"U+1FE3">>, <<"U+03A5", "U+0308", "U+0301">>>>,
      <<<<"U+1FE4">>, <<"U+03A1", "U+0313">>>>,
      <<<<"U+1FE5">>, <<"U+1FEC">>>>,
      <<<<"U+1FE6">>, <<"U+03A5", "U+0342">>>>,
      <<<<"U+1FE7">>, <<"U+03A5", "U+0308", "U+0342">>>>,
      <<<<"U+1FF2">>, <<"U+1FFA", "U+0399">>>>,
      <<<<"U+1FF3">>, <<"U+03A9", "U+0399">>>>,
      <<<<"U+1FF4">>, <<"U+038F", "U+0399">>>>,
      <<<<"U+1FF6">>, <<"U+03A9", "U+0342">>>>,
      <<<<"U+1FF7">>, <<"U+03A9", "U+0342", "U+0399">>>>,
      <<<<"U+1FFC">>, <<"U+03A9", "U+0399">>>>,
      <<<<"U+214E">>, <<"U+2132">>>>, <<<<"U+2170">>, <<"U+2160">>>>,
      <<<<"U+2171">>, <<"U+2161">>>>, <<<<"U+2172">>, <<"U+2162">>>>,
      <<<<"U+2173">>, <<"U+2163">>>>, <<<<"U+2174">>, <<"U+2164">>>>,
      <<<<"U+2175">>, <<"U+2165">>>>, <<<<"U+2176">>, <<"U+2166">>>>,
      <<<<"U+2177">>, <<"U+2167">>>>, <<<<"U+2178">>, <<"U+2168">>>>,
      <<<<"U+2179">>, <<"U+2169">>>>, <<<<"U+217A">>, <<"U+216A">>>>,
      <<<<"U+217B">>, <<"U+216B">>>>, <<<<"U+217C">>, <<"U+216C">>>>,
      <<<<"U+217D">>, <<"U+216D">>>>, <<<<"U+217E">>, <<"U+216E">>>>,
      <<<<"U+217F">>, <<"U+216F">>>>, <<<<"U+2184">>, <<"U+2183">>>>,
      <<<<"U+24D0">>, <<"U+24B6">>>>, <<<<"U+24D1">>, <<"U+24B7">>>>,
      <<<<"U+24D2">>, <<"U+24B8">>>>, <<<<"U+24D3">>, <<"U+24B9">>>>,
      <<<<"U+24D4">>, <<"U+24BA">>>>, <<<<"U+24D5">>, <<"U+24BB">>>>,
      <<<<"U+24D6">>, <<"U+24BC">>>>, <<<<"U+24D7">>, <<"U+24BD">>>>,
      <<<<"U+24D8">>, <<"U+24BE">>>>, <<<<"U+24D9">>, <<"U+24BF">>>>,
      <<<<"U+24DA">>, <<"U+24C0">>>>, <<<<"U+24DB">>, <<"U+24C1">>>>,
      <<<<"U+24DC">>, <<"U+24C2">>>>, <<<<"U+24DD">>, <<"U+24C3">>>>,
      <<<<"U+24DE">>, <<"U+24C4">>>>, <<<<"U+24DF">>, <<"U+24C5">>>>,
      <<<<"U+24E0">>, <<"U+24C6">>>>, <<<<"U+24E1">>, <<"U+24C7">>>>,
      <<<<"U+24E2">>, <<"U+24C8">>>>, <<<<"U+24E3">>, <<"U+24C9">>>>,
      <<<<"U+24E4">>, <<"U+24CA">>>>, <<<<"U+24E5">>, <<"U+24CB">>>>,
      <<<<"U+24E6">>, <<"U+24CC">>>>, <<<<"U+24E7">>, <<"U+24CD">>>>,
      <<<<"U+24E8">>, <<"U+24CE">>>>, <<<<"U+24E9">>, <<"U+24CF">>>>,
      <<<<"U+2C30">>, <<"U+2C00">>>>, <<<<"U+2C31">>, <<"U+2C01">>>>,
      <<<<"U+2C32">>, <<"U+2C02">>>>, <<<<"U+2C33">>, <<"U+2C03">>>>,
      <<<<"U+2C34">>, <<"U+2C04">>>>, <<<<"U+2C35">>, <<"U+2C05">>>>,
      <<<<"U+2C36">>, <<"U+2C06">>>>, <<<<"U+2C37">>, <<"U+2C07">>>>,
      <<<<"U+2C38">>, <<"U+2C08">>>>, <<<<"U+2C39">>, <<"U+2C09">>>>,
      <<<<"U+2C3A">>, <<"U+2C0A">>>>, <<<<"U+2C3B">>, <<"U+2C0B">>>>,
      <<<<"U+2C3C">>, <<"U+2C0C">>>>, <<<<"U+2C3D">>, <<"U+2C0D">>>>,
      <<<<"U+2C3E">>, <<"U+2C0E">>>>, <<<<"U+2C3F">>, <<"U+2C0F">>>>,
      <<<<"U+2C40">>, <<"U+2C10">>>>, <<<<"U+2C41">>, <<"U+2C11">>>>,
      <<<<"U+2C42">>, <<"U+2C12">>>>, <<<<"U+2C43">>, <<"U+2C13">>>>,
      <<<<"U+2C44">>, <<"U+2C14">>>>, <<<<"U+2C45">>, <<"U+2C15">>>>,
      <<<<"U+2C46">>, <<"U+2C16">>>>, <<<<"U+2C47">>, <<"U+2C17">>>>,
      <<<<"U+2C48">>, <<"U+2C18">>>>, <<<<"U+2C49">>, <<"U+2C19">>>>,
      <<<<"U+2C4A">>, <<"U+2C1A">>>>, <<<<"U+2C4B">>, <<"U+2C1B">>>>,
      <<<<"U+2C4C">>, <<"U+2C1C">>>>, <<<<"U+2C4D">>, <<"U+2C1D">>>>,
      <<<<"U+2C4E">>, <<"U+2C1E">>>>, <<<<"U+2C4F">>, <<"U+2C1F">>>>,
      <<<<"U+2C50">>, <<"U+2C20">>>>, <<<<"U+2C51">>, <<"U+2C21">>>>,
      <<<<"U+2C52">>, <<"U+2C22">>>>, <<<<"U+2C53">>, <<"U+2C23">>>>,
      <<<<"U+2C54">>, <<"U+2C24">>>>, <<<<"U+2C55">>, <<"U+2C25">>>>,
      <<<<"U+2C56">>, <<"U+2C26">>>>, <<<<"U+2C57">>, <<"U+2C27">>>>,
      <<<<"U+2C58">>, <<"U+2C28">>>>, <<<<"U+2C59">>, <<"U+2C29">>>>,
      <<<<"U+2C5A">>, <<"U+2C2A">>>>, <<<<"U+2C5B">>, <<"U+2C2B">>>>,
      <<<<"U+2C5C">>, <<"U+2C2C">>>>, <<<<"U+2C5D">>, <<"U+2C2D">>>>,
      <<<<"U+2C5E">>, <<"U+2C2E">>>>, <<<<"U+2C5F">>, <<"U+2C2F">>>>,
      <<<<"U+2C61">>, <<"U+2C60">>>>, <<<<"U+2C65">>, <<"U+023A">>>>,
      <<<<"U+2C66">>, <<"U+023E">>>>, <<<<"U+2C68">>, <<"U+2C67">>>>,
      <<<<"U+2C6A">>, <<"U+2C69">>>>, <<<<"U+2C6C">>, <<"U+2C6B">>>>,
      <<<<"U+2C73">>, <<"U+2C72">>>>, <<<<"U+2C76">>, <<"U+2C75">>>>,
      <<<<"U+2C81">>, <<"U+2C80">>>>, <<<<"U+2C83">>, <<"U+2C82">>>>,
      <<<<"U+2C85">>, <<"U+2C84">>>>, <<<<"U+2C87">>, <<"U+2C86">>>>,
      <<<<"U+2C89">>, <<"U+2C88">>>>, <<<<"U+2C8B">>, <<"U+2C8A">>>>,
      <<<<"U+2C8D">>, <<"U+2C8C">>>>, <<<<"U+2C8F">>, <<"U+2C8E">>>>,
      <<<<"U+2C91">>, <<"U+2C90">>>>, <<<<"U+2C93">>, <<"U+2C92">>>>,
      <<<<"U+2C95">>, <<"U+2C94">>>>, <<<<"U+2C97">>, <<"U+2C96">>>>,
      <<<<"U+2C99">>, <<"U+2C98">>>>, <<<<"U+2C9B">>, <<"U+2C9A">>>>,
      <<<<"U+2C9D">>, <<"U+2C9C">>>>, <<<<"U+2C9F">>, <<"U+2C9E">>>>,
      <<<<"U+2CA1">>, <<"U+2CA0">>>>, <<<<"U+2CA3">>, <<"U+2CA2">>>>,
      <<<<"U+2CA5">>, <<"U+2CA4">>>>, <<<<"U+2CA7">>, <<"U+2CA6">>>>,
      <<<<"U+2CA9">>, <<"U+2CA8">>>>, <<<<"U+2CAB">>, <<"U+2CAA">>>>,
      <<<<"U+2CAD">>, <<"U+2CAC">>>>, <<<<"U+2CAF">>, <<"U+2CAE">>>>,
      <<<<"U+2CB1">>, <<"U+2CB0">>>>, <<<<"U+2CB3">>, <<"U+2CB2">>>>,
      <<<<"U+2CB5">>, <<"U+2CB4">>>>, <<<<"U+2CB7">>, <<"U+2CB6">>>>,
      <<<<"U+2CB9">>, <<"U+2CB8">>>>, <<<<"U+2CBB">>, <<"U+2CBA">>>>,
      <<<<"U+2CBD">>, <<"U+2CBC">>>>, <<<<"U+2CBF">>, <<"U+2CBE">>>>,
      <<<<"U+2CC1">>, <<"U+2CC0">>>>, <<<<"U+2CC3">>, <<"U+2CC2">>>>,
      <<<<"U+2CC5">>, <<"U+2CC4">>>>, <<<<"U+2CC7">>, <<"U+2CC6">>>>,
      <<<<"U+2CC9">>, <<"U+2CC8">>>>, <<<<"U+2CCB">>, <<"U+2CCA">>>>,
      <<<<"U+2CCD">>, <<"U+2CCC">>>>, <<<<"U+2CCF">>, <<"U+2CCE">>>>,
      <<<<"U+2CD1">>, <<"U+2CD0">>>>, <<<<"U+2CD3">>, <<"U+2CD2">>>>,
      <<<<"U+2CD5">>, <<"U+2CD4">>>>, <<<<"U+2CD7">>, <<"U+2CD6">>>>,
      <<<<"U+2CD9">>, <<"U+2CD8">>>>, <<<<"U+2CDB">>, <<"U+2CDA">>>>,
      <<<<"U+2CDD">>, <<"U+2CDC">>>>, <<<<"U+2CDF">>, <<"U+2CDE">>>>,
      <<<<"U+2CE1">>, <<"U+2CE0">>>>, <<<<"U+2CE3">>, <<"U+2CE2">>>>,
      <<<<"U+2CEC">>, <<"U+2CEB">>>>, <<<<"U+2CEE">>, <<"U+2CED">>>>,
      <<<<"U+2CF3">>, <<"U+2CF2">>>>, <<<<"U+2D00">>, <<"U+10A0">>>>,
      <<<<"U+2D01">>, <<"U+10A1">>>>, <<<<"U+2D02">>, <<"U+10A2">>>>,
      <<<<"U+2D03">>, <<"U+10A3">>>>, <<<<"U+2D04">>, <<"U+10A4">>>>,
      <<<<"U+2D05">>, <<"U+10A5">>>>, <<<<"U+2D06">>, <<"U+10A6">>>>,
      <<<<"U+2D07">>, <<"U+10A7">>>>, <<<<"U+2D08">>, <<"U+10A8">>>>,
      <<<<"U+2D09">>, <<"U+10A9">>>>, <<<<"U+2D0A">>, <<"U+10AA">>>>,
      <<<<"U+2D0B">>, <<"U+10AB">>>>, <<<<"U+2D0C">>, <<"U+10AC">>>>,
      <<<<"U+2D0D">>, <<"U+10AD">>>>, <<<<"U+2D0E">>, <<"U+10AE">>>>,
      <<<<"U+2D0F">>, <<"U+10AF">>>>, <<<<"U+2D10">>, <<"U+10B0">>>>,
      <<<<"U+2D11">>, <<"U+10B1">>>>, <<<<"U+2D12">>, <<"U+10B2">>>>,
      <<<<"U+2D13">>, <<"U+10B3">>>>, <<<<"U+2D14">>, <<"U+10B4">>>>,
      <<<<"U+2D15">>, <<"U+10B5">>>>, <<<<"U+2D16">>, <<"U+10B6">>>>,
      <<<<"U+2D17">>, <<"U+10B7">>>>, <<<<"U+2D18">>, <<"U+10B8">>>>,
      <<<<"U+2D19">>, <<"U+10B9">>>>, <<<<"U+2D1A">>, <<"U+10BA">>>>,
      <<<<"U+2D1B">>, <<"U+10BB">>>>, <<<<"U+2D1C">>, <<"U+10BC">>>>,
      <<<<"U+2D1D">>, <<"U+10BD">>>>, <<<<"U+2D1E">>, <<"U+10BE">>>>,
      <<<<"U+2D1F">>, <<"U+10BF">>>>, <<<<"U+2D20">>, <<"U+10C0">>>>,
      <<<<"U+2D21">>, <<"U+10C1">>>>, <<<<"U+2D22">>, <<"U+10C2">>>>,
      <<<<"U+2D23">>, <<"U+10C3">>>>, <<<<"U+2D24">>, <<"U+10C4">>>>,
      <<<<"U+2D25">>, <<"U+10C5">>>>, <<<<"U+2D27">>, <<"U+10C7">>>>,
      <<<<"U+2D2D">>, <<"U+10CD">>>>, <<<<"U+A641">>, <<"U+A640">>>>,
      <<<<"U+A643">>, <<"U+A642">>>>, <<<<"U+A645">>, <<"U+A644">>>>,
      <<<<"U+A647">>, <<"U+A646">>>>, <<<<"U+A649">>, <<"U+A648">>>>,
      <<<<"U+A64B">>, <<"U+A64A">>>>, <<<<"U+A64D">>, <<"U+A64C">>>>,
      <<<<"U+A64F">>, <<"U+A64E">>>>, <<<<"U+A651">>, <<"U+A650">>>>,
      <<<<"U+A653">>, <<"U+A652">>>>, <<<<"U+A655">>, <<"U+A654">>>>,
      <<<<"U+A657">>, <<"U+A656">>>>, <<<<"U+A659">>, <<"U+A658">>>>,
      <<<<"U+A65B">>, <<"U+A65A">>>>, <<<<"U+A65D">>, <<"U+A65C">>>>,
      <<<<"U+A65F">>, <<"U+A65E">>>>, <<<<"U+A661">>, <<"U+A660">>>>,
      <<<<"U+A663">>, <<"U+A662">>>>, <<<<"U+A665">>, <<"U+A664">>>>,
      <<<<"U+A667">>, <<"U+A666">>>>, <<<<"U+A669">>, <<"U+A668">>>>,
      <<<<"U+A66B">>, <<"U+A66A">>>>, <<<<"U+A66D">>, <<"U+A66C">>>>,
      <<<<"U+A681">>, <<"U+A680">>>>, <<<<"U+A683">>, <<"U+A682">>>>,
      <<<<"U+A685">>, <<"U+A684">>>>, <<<<"U+A687">>, <<"U+A686">>>>,
      <<<<"U+A689">>, <<"U+A688">>>>, <<<<"U+A68B">>, <<"U+A68A">>>>,
      <<<<"U+A68D">>, <<"U+A68C">>>>, <<<<"U+A68F">>, <<"U+A68E">>>>,
      <<<<"U+A691">>, <<"U+A690">>>>, <<<<"U+A693">>, <<"U+A692">>>>,
      <<<<"U+A695">>, <<"U+A694">>>>, <<<<"U+A697">>, <<"U+A696">>>>,
      <<<<"U+A699">>, <<"U+A698">>>>, <<<<"U+A69B">>, <<"U+A69A">>>>,
      <<<<"U+A723">>, <<"U+A722">>>>, <<<<"U+A725">>, <<"U+A724">>>>,
      <<<<"U+A727">>, <<"U+A726">>>>, <<<<"U+A729">>, <<"U+A728">>>>,
      <<<<"U+A72B">>, <<"U+A72A">>>>, <<<<"U+A72D">>, <<"U+A72C">>>>,
      <<<<"U+A72F">>, <<"U+A72E">>>>, <<<<"U+A733">>, <<"U+A732">>>>,
      <<<<"U+A735">>, <<"U+A734">>>>, <<<<"U+A737">>, <<"U+A736">>>>,
      <<<<"U+A739">>, <<"U+A738">>>>, <<<<"U+A73B">>, <<"U+A73A">>>>,
      <<<<"U+A73D">>, <<"U+A73C">>>>, <<<<"U+A73F">>, <<"U+A73E">>>>,
      <<<<"U+A741">>, <<"U+A740">>>>, <<<<"U+A743">>, <<"U+A742">>>>,
      <<<<"U+A745">>, <<"U+A744">>>>, <<<<"U+A747">>, <<"U+A746">>>>,
      <<<<"U+A749">>, <<"U+A748">>>>, <<<<"U+A74B">>, <<"U+A74A">>>>,
      <<<<"U+A74D">>, <<"U+A74C">>>>, <<<<"U+A74F">>, <<"U+A74E">>>>,
      <<<<"U+A751">>, <<"U+A750">>>>, <<<<"U+A753">>, <<"U+A752">>>>,
      <<<<"U+A755">>, <<"U+A754">>>>, <<<<"U+A757">>, <<"U+A756">>>>,
      <<<<"U+A759">>, <<"U+A758">>>>, <<<<"U+A75B">>, <<"U+A75A">>>>,
      <<<<"U+A75D">>, <<"U+A75C">>>>, <<<<"U+A75F">>, <<"U+A75E">>>>,
      <<<<"U+A761">>, <<"U+A760">>>>, <<<<"U+A763">>, <<"U+A762">>>>,
      <<<<"U+A765">>, <<"U+A764">>>>, <<<<"U+A767">>, <<"U+A766">>>>,
      <<<<"U+A769">>, <<"U+A768">>>>, <<<<"U+A76B">>, <<"U+A76A">>>>,
      <<<<"U+A76D">>, <<"U+A76C">>>>, <<<<"U+A76F">>, <<"U+A76E">>>>,
      <<<<"U+A77A">>, <<"U+A779">>>>, <<<<"U+A77C">>, <<"U+A77B">>>>,
      <<<<"U+A77F">>, <<"U+A77E">>>>, <<<<"U+A781">>, <<"U+A780">>>>,
      <<<<"U+A783">>, <<"U+A782">>>>, <<<<"U+A785">>, <<"U+A784">>>>,
      <<<<"U+A787">>, <<"U+A786">>>>, <<<<"U+A78C">>, <<"U+A78B">>>>,
      <<<<"U+A791">>, <<"U+A790">>>>, <<<<"U+A793">>, <<"U+A792">>>>,
      <<<<"U+A794">>, <<"U+A7C4">>>>, <<<<"U+A797">>, <<"U+A796">>>>,
      <<<<"U+A799">>, <<"U+A798">>>>, <<<<"U+A79B">>, <<"U+A79A">>>>,
      <<<<"U+A79D">>, <<"U+A79C">>>>, <<<<"U+A79F">>, <<"U+A79E">>>>,
      <<<<"U+A7A1">>, <<"U+A7A0">>>>, <<<<"U+A7A3">>, <<"U+A7A2">>>>,
      <<<<"U+A7A5">>, <<"U+A7A4">>>>, <<<<"U+A7A7">>, <<"U+A7A6">>>>,
      <<<<"U+A7A9">>, <<"U+A7A8">>>>, <<<<"U+A7B5">>, <<"U+A7B4">>>>,
      <<<<"U+A7B7">>, <<"U+A7B6">>>>, <<<<"U+A7B9">>, <<"U+A7B8">>>>,
      <<<<"U+A7BB">>, <<"U+A7BA">>>>, <<<<"U+A7BD">>, <<"U+A7BC">>>>,
      <<<<"U+A7BF">>, <<"U+A7BE">>>>, <<<<"U+A7C1">>, <<"U+A7C0">>>>,
      <<<<"U+A7C3">>, <<"U+A7C2">>>>, <<<<"U+A7C8">>, <<"U+A7C7">>>>,
      <<<<"U+A7CA">>, <<"U+A7C9">>>>, <<<<"U+A7CD">>, <<"U+A7CC">>>>,
      <<<<"U+A7CF">>, <<"U+A7CE">>>>, <<<<"U+A7D1">>, <<"U+A7D0">>>>,
      <<<<"U+A7D3">>, <<"U+A7D2">>>>, <<<<"U+A7D5">>, <<"U+A7D4">>>>,
      <<<<"U+A7D7">>, <<"U+A7D6">>>>, <<<<"U+A7D9">>, <<"U+A7D8">>>>,
      <<<<"U+A7DB">>, <<"U+A7DA">>>>, <<<<"U+A7F6">>, <<"U+A7F5">>>>,
      <<<<"U+AB53">>, <<"U+A7B3">>>>, <<<<"U+AB70">>, <<"U+13A0">>>>,
      <<<<"U+AB71">>, <<"U+13A1">>>>, <<<<"U+AB72">>, <<"U+13A2">>>>,
      <<<<"U+AB73">>, <<"U+13A3">>>>, <<<<"U+AB74">>, <<"U+13A4">>>>,
      <<<<"U+AB75">>, <<"U+13A5">>>>, <<<<"U+AB76">>, <<"U+13A6">>>>,
      <<<<"U+AB77">>, <<"U+13A7">>>>, <<<<"U+AB78">>, <<"U+13A8">>>>,
      <<<<"U+AB79">>, <<"U+13A9">>>>, <<<<"U+AB7A">>, <<"U+13AA">>>>,
      <<<<"U+AB7B">>, <<"U+13AB">>>>, <<<<"U+AB7C">>, <<"U+13AC">>>>,
      <<<<"U+AB7D">>, <<"U+13AD">>>>, <<<<"U+AB7E">>, <<"U+13AE">>>>,
      <<<<"U+AB7F">>, <<"U+13AF">>>>, <<<<"U+AB80">>, <<"U+13B0">>>>,
      <<<<"U+AB81">>, <<"U+13B1">>>>, <<<<"U+AB82">>, <<"U+13B2">>>>,
      <<<<"U+AB83">>, <<"U+13B3">>>>, <<<<"U+AB84">>, <<"U+13B4">>>>,
      <<<<"U+AB85">>, <<"U+13B5">>>>, <<<<"U+AB86">>, <<"U+13B6">>>>,
      <<<<"U+AB87">>, <<"U+13B7">>>>, <<<<"U+AB88">>, <<"U+13B8">>>>,
      <<<<"U+AB89">>, <<"U+13B9">>>>, <<<<"U+AB8A">>, <<"U+13BA">>>>,
      <<<<"U+AB8B">>, <<"U+13BB">>>>, <<<<"U+AB8C">>, <<"U+13BC">>>>,
      <<<<"U+AB8D">>, <<"U+13BD">>>>, <<<<"U+AB8E">>, <<"U+13BE">>>>,
      <<<<"U+AB8F">>, <<"U+13BF">>>>, <<<<"U+AB90">>, <<"U+13C0">>>>,
      <<<<"U+AB91">>, <<"U+13C1">>>>, <<<<"U+AB92">>, <<"U+13C2">>>>,
      <<<<"U+AB93">>, <<"U+13C3">>>>, <<<<"U+AB94">>, <<"U+13C4">>>>,
      <<<<"U+AB95">>, <<"U+13C5">>>>, <<<<"U+AB96">>, <<"U+13C6">>>>,
      <<<<"U+AB97">>, <<"U+13C7">>>>, <<<<"U+AB98">>, <<"U+13C8">>>>,
      <<<<"U+AB99">>, <<"U+13C9">>>>, <<<<"U+AB9A">>, <<"U+13CA">>>>,
      <<<<"U+AB9B">>, <<"U+13CB">>>>, <<<<"U+AB9C">>, <<"U+13CC">>>>,
      <<<<"U+AB9D">>, <<"U+13CD">>>>, <<<<"U+AB9E">>, <<"U+13CE">>>>,
      <<<<"U+AB9F">>, <<"U+13CF">>>>, <<<<"U+ABA0">>, <<"U+13D0">>>>,
      <<<<"U+ABA1">>, <<"U+13D1">>>>, <<<<"U+ABA2">>, <<"U+13D2">>>>,
      <<<<"U+ABA3">>, <<"U+13D3">>>>, <<<<"U+ABA4">>, <<"U+13D4">>>>,
      <<<<"U+ABA5">>, <<"U+13D5">>>>, <<<<"U+ABA6">>, <<"U+13D6">>>>,
      <<<<"U+ABA7">>, <<"U+13D7">>>>, <<<<"U+ABA8">>, <<"U+13D8">>>>,
      <<<<"U+ABA9">>, <<"U+13D9">>>>, <<<<"U+ABAA">>, <<"U+13DA">>>>,
      <<<<"U+ABAB">>, <<"U+13DB">>>>, <<<<"U+ABAC">>, <<"U+13DC">>>>,
      <<<<"U+ABAD">>, <<"U+13DD">>>>, <<<<"U+ABAE">>, <<"U+13DE">>>>,
      <<<<"U+ABAF">>, <<"U+13DF">>>>, <<<<"U+ABB0">>, <<"U+13E0">>>>,
      <<<<"U+ABB1">>, <<"U+13E1">>>>, <<<<"U+ABB2">>, <<"U+13E2">>>>,
      <<<<"U+ABB3">>, <<"U+13E3">>>>, <<<<"U+ABB4">>, <<"U+13E4">>>>,
      <<<<"U+ABB5">>, <<"U+13E5">>>>, <<<<"U+ABB6">>, <<"U+13E6">>>>,
      <<<<"U+ABB7">>, <<"U+13E7">>>>, <<<<"U+ABB8">>, <<"U+13E8">>>>,
      <<<<"U+ABB9">>, <<"U+13E9">>>>, <<<<"U+ABBA">>, <<"U+13EA">>>>,
      <<<<"U+ABBB">>, <<"U+13EB">>>>, <<<<"U+ABBC">>, <<"U+13EC">>>>,
      <<<<"U+ABBD">>, <<"U+13ED">>>>, <<<<"U+ABBE">>, <<"U+13EE">>>>,
      <<<<"U+ABBF">>, <<"U+13EF">>>>, <<<<"U+FB00">>, <<"F", "F">>>>,
      <<<<"U+FB01">>, <<"F", "I">>>>, <<<<"U+FB02">>, <<"F", "L">>>>,
      <<<<"U+FB03">>, <<"F", "F", "I">>>>,
      <<<<"U+FB04">>, <<"F", "F", "L">>>>, <<<<"U+FB05">>, <<"S", "T">>>>,
      <<<<"U+FB06">>, <<"S", "T">>>>,
      <<<<"U+FB13">>, <<"U+0544", "U+0546">>>>,
      <<<<"U+FB14">>, <<"U+0544", "U+0535">>>>,
      <<<<"U+FB15">>, <<"U+0544", "U+053B">>>>,
      <<<<"U+FB16">>, <<"U+054E", "U+0546">>>>,
      <<<<"U+FB17">>, <<"U+0544", "U+053D">>>>,
      <<<<"U+FF41">>, <<"U+FF21">>>>, <<<<"U+FF42">>, <<"U+FF22">>>>,
      <<<<"U+FF43">>, <<"U+FF23">>>>, <<<<"U+FF44">>, <<"U+FF24">>>>,
      <<<<"U+FF45">>, <<"U+FF25">>>>, <<<<"U+FF46">>, <<"U+FF26">>>>,
      <<<<"U+FF47">>, <<"U+FF27">>>>, <<<<"U+FF48">>, <<"U+FF28">>>>,
      <<<<"U+FF49">>, <<"U+FF29">>>>, <<<<"U+FF4A">>, <<"U+FF2A">>>>,
      <<<<"U+FF4B">>, <<"U+FF2B">>>>, <<<<"U+FF4C">>, <<"U+FF2C">>>>,
      <<<<"U+FF4D">>, <<"U+FF2D">>>>, <<<<"U+FF4E">>, <<"U+FF2E">>>>,
      <<<<"U+FF4F">>, <<"U+FF2F">>>>, <<<<"U+FF50">>, <<"U+FF30">>>>,
      <<<<"U+FF51">>, <<"U+FF31">>>>, <<<<"U+FF52">>, <<"U+FF32">>>>,
      <<<<"U+FF53">>, <<"U+FF33">>>>, <<<<"U+FF54">>, <<"U+FF34">>>>,
      <<<<"U+FF55">>, <<"U+FF35">>>>, <<<<"U+FF56">>, <<"U+FF36">>>>,
      <<<<"U+FF57">>, <<"U+FF37">>>>, <<<<"U+FF58">>, <<"U+FF38">>>>,
      <<<<"U+FF59">>, <<"U+FF39">>>>, <<<<"U+FF5A">>, <<"U+FF3A">>>>,
      <<<<"U+D801", "U+DC28">>, <<"U+D801", "U+DC00">>>>,
      <<<<"U+D801", "U+DC29">>, <<"U+D801", "U+DC01">>>>,
      <<<<"U+D801", "U+DC2A">>, <<"U+D801", "U+DC02">>>>,
      <<<<"U+D801", "U+DC2B">>, <<"U+D801", "U+DC03">>>>,
      <<<<"U+D801", "U+DC2C">>, <<"U+D801", "U+DC04">>>>,
      <<<<"U+D801", "U+DC2D">>, <<"U+D801", "U+DC05">>>>,
      <<<<"U+D801", "U+DC2E">>, <<"U+D801", "U+DC06">>>>,
      <<<<"U+D801", "U+DC2F">>, <<"U+D801", "U+DC07">>>>,
      <<<<"U+D801", "U+DC30">>, <<"U+D801", "U+DC08">>>>,
      <<<<"U+D801", "U+DC31">>, <<"U+D801", "U+DC09">>>>,
      <<<<"U+D801", "U+DC32">>, <<"U+D801", "U+DC0A">>>>,
      <<<<"U+D801", "U+DC33">>, <<"U+D801", "U+DC0B">>>>,
      <<<<"U+D801", "U+DC34">>, <<"U+D801", "U+DC0C">>>>,
      <<<<"U+D801", "U+DC35">>, <<"U+D801", "U+DC0D">>>>,
      <<<<"U+D801", "U+DC36">>, <<"U+D801", "U+DC0E">>>>,
      <<<<"U+D801", "U+DC37">>, <<"U+D801", "U+DC0F">>>>,
      <<<<"U+D801", "U+DC38">>, <<"U+D801", "U+DC10">>>>,
      <<<<"U+D801", "U+DC39">>, <<"U+D801", "U+DC11">>>>,
      <<<<"U+D801", "U+DC3A">>, <<"U+D801", "U+DC12">>>>,
      <<<<"U+D801", "U+DC3B">>, <<"U+D801", "U+DC13">>>>,
      <<<<"U+D801", "U+DC3C">>, <<"U+D801", "U+DC14">>>>,
      <<<<"U+D801", "U+DC3D">>, <<"U+D801", "U+DC15">>>>,
      <<<<"U+D801", "U+DC3E">>, <<"U+D801", "U+DC16">>>>,
      <<<<"U+D801", "U+DC3F">>, <<"U+D801", "U+DC17">>>>,
      <<<<"U+D801", "U+DC40">>, <<"U+D801", "U+DC18">>>>,
      <<<<"U+D801", "U+DC41">>, <<"U+D801", "U+DC19">>>>,
      <<<<"U+D801", "U+DC42">>, <<"U+D801", "U+DC1A">>>>,
      <<<<"U+D801", "U+DC43">>, <<"U+D801", "U+DC1B">>>>,
      <<<<"U+D801", "U+DC44">>, <<"U+D801", "U+DC1C">>>>,
      <<<<"U+D801", "U+DC45">>, <<"U+D801", "U+DC1D">>>>,
      <<<<"U+D801", "U+DC46">>, <<"U+D801", "U+DC1E">>>>,
      <<<<"U+D801", "U+DC47">>, <<"U+D801", "U+DC1F">>>>,
      <<<<"U+D801", "U+DC48">>, <<"U+D801", "U+DC20">>>>,
      <<<<"U+D801", "U+DC49">>, <<"U+D801", "U+DC21">>>>,
      <<<<"U+D801", "U+DC4A">>, <<"U+D801", "U+DC22">>>>,
      <<<<"U+D801", "U+DC4B">>, <<"U+D801", "U+DC23">>>>,
      <<<<"U+D801", "U+DC4C">>, <<"U+D801", "U+DC24">>>>,
      <<<<"U+D801", "U+DC4D">>, <<"U+D801", "U+DC25">>>>,
      <<<<"U+D801", "U+DC4E">>, <<"U+D801", "U+DC26">>>>,
      <<<<"U+D801", "U+DC4F">>, <<"U+D801", "U+DC27">>>>,
      <<<<"U+D801", "U+DCD8">>, <<"U+D801", "U+DCB0">>>>,
      <<<<"U+D801", "U+DCD9">>, <<"U+D801", "U+DCB1">>>>,
      <<<<"U+D801", "U+DCDA">>, <<"U+D801", "U+DCB2">>>>,
      <<<<"U+D801", "U+DCDB">>, <<"U+D801", "U+DCB3">>>>,
      <<<<"U+D801", "U+DCDC">>, <<"U+D801", "U+DCB4">>>>,
      <<<<"U+D801", "U+DCDD">>, <<"U+D801", "U+DCB5">>>>,
      <<<<"U+D801", "U+DCDE">>, <<"U+D801", "U+DCB6">>>>,
      <<<<"U+D801", "U+DCDF">>, <<"U+D801", "U+DCB7">>>>,
      <<<<"U+D801", "U+DCE0">>, <<"U+D801", "U+DCB8">>>>,
      <<<<"U+D801", "U+DCE1">>, <<"U+D801", "U+DCB9">>>>,
      <<<<"U+D801", "U+DCE2">>, <<"U+D801", "U+DCBA">>>>,
      <<<<"U+D801", "U+DCE3">>, <<"U+D801", "U+DCBB">>>>,
      <<<<"U+D801", "U+DCE4">>, <<"U+D801", "U+DCBC">>>>,
      <<<<"U+D801", "U+DCE5">>, <<"U+D801", "U+DCBD">>>>,
      <<<<"U+D801", "U+DCE6">>, <<"U+D801", "U+DCBE">>>>,
      <<<<"U+D801", "U+DCE7">>, <<"U+D801", "U+DCBF">>>>,
      <<<<"U+D801", "U+DCE8">>, <<"U+D801", "U+DCC0">>>>,
      <<<<"U+D801", "U+DCE9">>, <<"U+D801", "U+DCC1">>>>,
      <<<<"U+D801", "U+DCEA">>, <<"U+D801", "U+DCC2">>>>,
      <<<<"U+D801", "U+DCEB">>, <<"U+D801", "U+DCC3">>>>,
      <<<<"U+D801", "U+DCEC">>, <<"U+D801", "U+DCC4">>>>,
      <<<<"U+D801", "U+DCED">>, <<"U+D801", "U+DCC5">>>>,
      <<<<"U+D801", "U+DCEE">>, <<"U+D801", "U+DCC6">>>>,
      <<<<"U+D801", "U+DCEF">>, <<"U+D801", "U+DCC7">>>>,
      <<<<"U+D801", "U+DCF0">>, <<"U+D801", "U+DCC8">>>>,
      <<<<"U+D801", "U+DCF1">>, <<"U+D801", "U+DCC9">>>>,
      <<<<"U+D801", "U+DCF2">>, <<"U+D801", "U+DCCA">>>>,
      <<<<"U+D801", "U+DCF3">>, <<"U+D801", "U+DCCB">>>>,
      <<<<"U+D801", "U+DCF4">>, <<"U+D801", "U+DCCC">>>>,
      <<<<"U+D801", "U+DCF5">>, <<"U+D801", "U+DCCD">>>>,
      <<<<"U+D801", "U+DCF6">>, <<"U+D801", "U+DCCE">>>>,
      <<<<"U+D801", "U+DCF7">>, <<"U+D801", "U+DCCF">>>>,
      <<<<"U+D801", "U+DCF8">>, <<"U+D801", "U+DCD0">>>>,
      <<<<"U+D801", "U+DCF9">>, <<"U+D801", "U+DCD1">>>>,
      <<<<"U+D801", "U+DCFA">>, <<"U+D801", "U+DCD2">>>>,
      <<<<"U+D801", "U+DCFB">>, <<"U+D801", "U+DCD3">>>>,
      <<<<"U+D801", "U+DD97">>, <<"U+D801", "U+DD70">>>>,
      <<<<"U+D801", "U+DD98">>, <<"U+D801", "U+DD71">>>>,
      <<<<"U+D801", "U+DD99">>, <<"U+D801", "U+DD72">>>>,
      <<<<"U+D801", "U+DD9A">>, <<"U+D801", "U+DD73">>>>,
      <<<<"U+D801", "U+DD9B">>, <<"U+D801", "U+DD74">>>>,
      <<<<"U+D801", "U+DD9C">>, <<"U+D801", "U+DD75">>>>,
      <<<<"U+D801", "U+DD9D">>, <<"U+D801", "U+DD76">>>>,
      <<<<"U+D801", "U+DD9E">>, <<"U+D801", "U+DD77">>>>,
      <<<<"U+D801", "U+DD9F">>, <<"U+D801", "U+DD78">>>>,
      <<<<"U+D801", "U+DDA0">>, <<"U+D801", "U+DD79">>>>,
      <<<<"U+D801", "U+DDA1">>, <<"U+D801", "U+DD7A">>>>,
      <<<<"U+D801", "U+DDA3">>, <<"U+D801", "U+DD7C">>>>,
      <<<<"U+D801", "U+DDA4">>, <<"U+D801", "U+DD7D">>>>,
      <<<<"U+D801", "U+DDA5">>, <<"U+D801", "U+DD7E">>>>,
      <<<<"U+D801", "U+DDA6">>, <<"U+D801", "U+DD7F">>>>,
      <<<<"U+D801", "U+DDA7">>, <<"U+D801", "U+DD80">>>>,
      <<<<"U+D801", "U+DDA8">>, <<"U+D801", "U+DD81">>>>,
      <<<<"U+D801", "U+DDA9">>, <<"U+D801", "U+DD82">>>>,
      <<<<"U+D801", "U+DDAA">>, <<"U+D801", "U+DD83">>>>,
      <<<<"U+D801", "U+DDAB">>, <<"U+D801", "U+DD84">>>>,
      <<<<"U+D801", "U+DDAC">>, <<"U+D801", "U+DD85">>>>,
      <<<<"U+D801", "U+DDAD">>, <<"U+D801", "U+DD86">>>>,
      <<<<"U+D801", "U+DDAE">>, <<"U+D801", "U+DD87">>>>,
      <<<<"U+D801", "U+DDAF">>, <<"U+D801", "U+DD88">>>>,
      <<<<"U+D801", "U+DDB0">>, <<"U+D801", "U+DD89">>>>,
      <<<<"U+D801", "U+DDB1">>, <<"U+D801", "U+DD8A">>>>,
      <<<<"U+D801", "U+DDB3">>, <<"U+D801", "U+DD8C">>>>,
      <<<<"U+D801", "U+DDB4">>, <<"U+D801", "U+DD8D">>>>,
      <<<<"U+D801", "U+DDB5">>, <<"U+D801", "U+DD8E">>>>,
      <<<<"U+D801", "U+DDB6">>, <<"U+D801", "U+DD8F">>>>,
      <<<<"U+D801", "U+DDB7">>, <<"U+D801", "U+DD90">>>>,
      <<<<"U+D801", "U+DDB8">>, <<"U+D801", "U+DD91">>>>,
      <<<<"U+D801", "U+DDB9">>, <<"U+D801", "U+DD92">>>>,
      <<<<"U+D801", "U+DDBB">>, <<"U+D801", "U+DD94">>>>,
      <<<<"U+D801", "U+DDBC">>, <<"U+D801", "U+DD95">>>>,
      <<<<"U+D803", "U+DCC0">>, <<"U+D803", "U+DC80">>>>,
      <<<<"U+D803", "U+DCC1">>, <<"U+D803", "U+DC81">>>>,
      <<<<"U+D803", "U+DCC2">>, <<"U+D803", "U+DC82">>>>,
      <<<<"U+D803", "U+DCC3">>, <<"U+D803", "U+DC83">>>>,
      <<<<"U+D803", "U+DCC4">>, <<"U+D803", "U+DC84">>>>,
      <<<<"U+D803", "U+DCC5">>, <<"U+D803", "U+DC85">>>>,
      <<<<"U+D803", "U+DCC6">>, <<"U+D803", "U+DC86">>>>,
      <<<<"U+D803", "U+DCC7">>, <<"U+D803", "U+DC87">>>>,
      <<<<"U+D803", "U+DCC8">>, <<"U+D803", "U+DC88">>>>,
      <<<<"U+D803", "U+DCC9">>, <<"U+D803", "U+DC89">>>>,
      <<<<"U+D803", "U+DCCA">>, <<"U+D803", "U+DC8A">>>>,
      <<<<"U+D803", "U+DCCB">>, <<"U+D803", "U+DC8B">>>>,
      <<<<"U+D803", "U+DCCC">>, <<"U+D803", "U+DC8C">>>>,
      <<<<"U+D803", "U+DCCD">>, <<"U+D803", "U+DC8D">>>>,
      <<<<"U+D803", "U+DCCE">>, <<"U+D803", "U+DC8E">>>>,
      <<<<"U+D803", "U+DCCF">>, <<"U+D803", "U+DC8F">>>>,
      <<<<"U+D803", "U+DCD0">>, <<"U+D803", "U+DC90">>>>,
      <<<<"U+D803", "U+DCD1">>, <<"U+D803", "U+DC91">>>>,
      <<<<"U+D803", "U+DCD2">>, <<"U+D803", "U+DC92">>>>,
      <<<<"U+D803", "U+DCD3">>, <<"U+D803", "U+DC93">>>>,
      <<<<"U+D803", "U+DCD4">>, <<"U+D803", "U+DC94">>>>,
      <<<<"U+D803", "U+DCD5">>, <<"U+D803", "U+DC95">>>>,
      <<<<"U+D803", "U+DCD6">>, <<"U+D803", "U+DC96">>>>,
      <<<<"U+D803", "U+DCD7">>, <<"U+D803", "U+DC97">>>>,
      <<<<"U+D803", "U+DCD8">>, <<"U+D803", "U+DC98">>>>,
      <<<<"U+D803", "U+DCD9">>, <<"U+D803", "U+DC99">>>>,
      <<<<"U+D803", "U+DCDA">>, <<"U+D803", "U+DC9A">>>>,
      <<<<"U+D803", "U+DCDB">>, <<"U+D803", "U+DC9B">>>>,
      <<<<"U+D803", "U+DCDC">>, <<"U+D803", "U+DC9C">>>>,
      <<<<"U+D803", "U+DCDD">>, <<"U+D803", "U+DC9D">>>>,
      <<<<"U+D803", "U+DCDE">>, <<"U+D803", "U+DC9E">>>>,
      <<<<"U+D803", "U+DCDF">>, <<"U+D803", "U+DC9F">>>>,
      <<<<"U+D803", "U+DCE0">>, <<"U+D803", "U+DCA0">>>>,
      <<<<"U+D803", "U+DCE1">>, <<"U+D803", "U+DCA1">>>>,
      <<<<"U+D803", "U+DCE2">>, <<"U+D803", "U+DCA2">>>>,
      <<<<"U+D803", "U+DCE3">>, <<"U+D803", "U+DCA3">>>>,
      <<<<"U+D803", "U+DCE4">>, <<"U+D803", "U+DCA4">>>>,
      <<<<"U+D803", "U+DCE5">>, <<"U+D803", "U+DCA5">>>>,
      <<<<"U+D803", "U+DCE6">>, <<"U+D803", "U+DCA6">>>>,
      <<<<"U+D803", "U+DCE7">>, <<"U+D803", "U+DCA7">>>>,
      <<<<"U+D803", "U+DCE8">>, <<"U+D803", "U+DCA8">>>>,
      <<<<"U+D803", "U+DCE9">>, <<"U+D803", "U+DCA9">>>>,
      <<<<"U+D803", "U+DCEA">>, <<"U+D803", "U+DCAA">>>>,
      <<<<"U+D803", "U+DCEB">>, <<"U+D803", "U+DCAB">>>>,
      <<<<"U+D803", "U+DCEC">>, <<"U+D803", "U+DCAC">>>>,
      <<<<"U+D803", "U+DCED">>, <<"U+D803", "U+DCAD">>>>,
      <<<<"U+D803", "U+DCEE">>, <<"U+D803", "U+DCAE">>>>,
      <<<<"U+D803", "U+DCEF">>, <<"U+D803", "U+DCAF">>>>,
      <<<<"U+D803", "U+DCF0">>, <<"U+D803", "U+DCB0">>>>,
      <<<<"U+D803", "U+DCF1">>, <<"U+D803", "U+DCB1">>>>,
      <<<<"U+D803", "U+DCF2">>, <<"U+D803", "U+DCB2">>>>,
      <<<<"U+D803", "U+DD70">>, <<"U+D803", "U+DD50">>>>,
      <<<<"U+D803", "U+DD71">>, <<"U+D803", "U+DD51">>>>,
      <<<<"U+D803", "U+DD72">>, <<"U+D803", "U+DD52">>>>,
      <<<<"U+D803", "U+DD73">>, <<"U+D803", "U+DD53">>>>,
      <<<<"U+D803", "U+DD74">>, <<"U+D803", "U+DD54">>>>,
      <<<<"U+D803", "U+DD75">>, <<"U+D803", "U+DD55">>>>,
      <<<<"U+D803", "U+DD76">>, <<"U+D803", "U+DD56">>>>,
      <<<<"U+D803", "U+DD77">>, <<"U+D803", "U+DD57">>>>,
      <<<<"U+D803", "U+DD78">>, <<"U+D803", "U+DD58">>>>,
      <<<<"U+D803", "U+DD79">>, <<"U+D803", "U+DD59">>>>,
      <<<<"U+D803", "U+DD7A">>, <<"U+D803", "U+DD5A">>>>,
      <<<<"U+D803", "U+DD7B">>, <<"U+D803", "U+DD5B">>>>,
      <<<<"U+D803", "U+DD7C">>, <<"U+D803", "U+DD5C">>>>,
      <<<<"U+D803", "U+DD7D">>, <<"U+D803", "U+DD5D">>>>,
      <<<<"U+D803", "U+DD7E">>, <<"U+D803", "U+DD5E">>>>,
      <<<<"U+D803", "U+DD7F">>, <<"U+D803", "U+DD5F">>>>,
      <<<<"U+D803", "U+DD80">>, <<"U+D803", "U+DD60">>>>,
      <<<<"U+D803", "U+DD81">>, <<"U+D803", "U+DD61">>>>,
      <<<<"U+D803", "U+DD82">>, <<"U+D803", "U+DD62">>>>,
      <<<<"U+D803", "U+DD83">>, <<"U+D803", "U+DD63">>>>,
      <<<<"U+D803", "U+DD84">>, <<"U+D803", "U+DD64">>>>,
      <<<<"U+D803", "U+DD85">>, <<"U+D803", "U+DD65">>>>,
      <<<<"U+D806", "U+DCC0">>, <<"U+D806", "U+DCA0">>>>,
      <<<<"U+D806", "U+DCC1">>, <<"U+D806", "U+DCA1">>>>,
      <<<<"U+D806", "U+DCC2">>, <<"U+D806", "U+DCA2">>>>,
      <<<<"U+D806", "U+DCC3">>, <<"U+D806", "U+DCA3">>>>,
      <<<<"U+D806", "U+DCC4">>, <<"U+D806", "U+DCA4">>>>,
      <<<<"U+D806", "U+DCC5">>, <<"U+D806", "U+DCA5">>>>,
      <<<<"U+D806", "U+DCC6">>, <<"U+D806", "U+DCA6">>>>,
      <<<<"U+D806", "U+DCC7">>, <<"U+D806", "U+DCA7">>>>,
      <<<<"U+D806", "U+DCC8">>, <<"U+D806", "U+DCA8">>>>,
      <<<<"U+D806", "U+DCC9">>, <<"U+D806", "U+DCA9">>>>,
      <<<<"U+D806", "U+DCCA">>, <<"U+D806", "U+DCAA">>>>,
      <<<<"U+D806", "U+DCCB">>, <<"U+D806", "U+DCAB">>>>,
      <<<<"U+D806", "U+DCCC">>, <<"U+D806", "U+DCAC">>>>,
      <<<<"U+D806", "U+DCCD">>, <<"U+D806", "U+DCAD">>>>,
      <<<<"U+D806", "U+DCCE">>, <<"U+D806", "U+DCAE">>>>,
      <<<<"U+D806", "U+DCCF">>, <<"U+D806", "U+DCAF">>>>,
      <<<<"U+D806", "U+DCD0">>, <<"U+D806", "U+DCB0">>>>,
      <<<<"U+D806", "U+DCD1">>, <<"U+D806", "U+DCB1">>>>,
      <<<<"U+D806", "U+DCD2">>, <<"U+D806", "U+DCB2">>>>,
      <<<<"U+D806", "U+DCD3">>, <<"U+D806", "U+DCB3">>>>,
      <<<<"U+D806", "U+DCD4">>, <<"U+D806", "U+DCB4">>>>,
      <<<<"U+D806", "U+DCD5">>, <<"U+D806", "U+DCB5">>>>,
      <<<<"U+D806", "U+DCD6">>, <<"U+D806", "U+DCB6">>>>,
      <<<<"U+D806", "U+DCD7">>, <<"U+D806", "U+DCB7">>>>,
      <<<<"U+D806", "U+DCD8">>, <<"U+D806", "U+DCB8">>>>,
      <<<<"U+D806", "U+DCD9">>, <<"U+D806", "U+DCB9">>>>,
      <<<<"U+D806", "U+DCDA">>, <<"U+D806", "U+DCBA">>>>,
      <<<<"U+D806", "U+DCDB">>, <<"U+D806", "U+DCBB">>>>,
      <<<<"U+D806", "U+DCDC">>, <<"U+D806", "U+DCBC">>>>,
      <<<<"U+D806", "U+DCDD">>, <<"U+D806", "U+DCBD">>>>,
      <<<<"U+D806", "U+DCDE">>, <<"U+D806", "U+DCBE">>>>,
      <<<<"U+D806", "U+DCDF">>, <<"U+D806", "U+DCBF">>>>,
      <<<<"U+D81B", "U+DE60">>, <<"U+D81B", "U+DE40">>>>,
      <<<<"U+D81B", "U+DE61">>, <<"U+D81B", "U+DE41">>>>,
      <<<<"U+D81B", "U+DE62">>, <<"U+D81B", "U+DE42">>>>,
      <<<<"U+D81B", "U+DE63">>, <<"U+D81B", "U+DE43">>>>,
      <<<<"U+D81B", "U+DE64">>, <<"U+D81B", "U+DE44">>>>,
      <<<<"U+D81B", "U+DE65">>, <<"U+D81B", "U+DE45">>>>,
      <<<<"U+D81B", "U+DE66">>, <<"U+D81B", "U+DE46">>>>,
      <<<<"U+D81B", "U+DE67">>, <<"U+D81B", "U+DE47">>>>,
      <<<<"U+D81B", "U+DE68">>, <<"U+D81B", "U+DE48">>>>,
      <<<<"U+D81B", "U+DE69">>, <<"U+D81B", "U+DE49">>>>,
      <<<<"U+D81B", "U+DE6A">>, <<"U+D81B", "U+DE4A">>>>,
      <<<<"U+D81B", "U+DE6B">>, <<"U+D81B", "U+DE4B">>>>,
      <<<<"U+D81B", "U+DE6C">>, <<"U+D81B", "U+DE4C">>>>,
      <<<<"U+D81B", "U+DE6D">>, <<"U+D81B", "U+DE4D">>>>,
      <<<<"U+D81B", "U+DE6E">>, <<"U+D81B", "U+DE4E">>>>,
      <<<<"U+D81B", "U+DE6F">>, <<"U+D81B", "U+DE4F">>>>,
      <<<<"U+D81B", "U+DE70">>, <<"U+D81B", "U+DE50">>>>,
      <<<<"U+D81B", "U+DE71">>, <<"U+D81B", "U+DE51">>>>,
      <<<<"U+D81B", "U+DE72">>, <<"U+D81B", "U+DE52">>>>,
      <<<<"U+D81B", "U+DE73">>, <<"U+D81B", "U+DE53">>>>,
      <<<<"U+D81B", "U+DE74">>, <<"U+D81B", "U+DE54">>>>,
      <<<<"U+D81B", "U+DE75">>, <<"U+D81B", "U+DE55">>>>,
      <<<<"U+D81B", "U+DE76">>, <<"U+D81B", "U+DE56">>>>,
      <<<<"U+D81B", "U+DE77">>, <<"U+D81B", "U+DE57">>>>,
      <<<<"U+D81B", "U+DE78">>, <<"U+D81B", "U+DE58">>>>,
      <<<<"U+D81B", "U+DE79">>, <<"U+D81B", "U+DE59">>>>,
      <<<<"U+D81B", "U+DE7A">>, <<"U+D81B", "U+DE5A">>>>,
      <<<<"U+D81B", "U+DE7B">>, <<"U+D81B", "U+DE5B">>>>,
      <<<<"U+D81B", "U+DE7C">>, <<"U+D81B", "U+DE5C">>>>,
      <<<<"U+D81B", "U+DE7D">>, <<"U+D81B", "U+DE5D">>>>,
      <<<<"U+D81B", "U+DE7E">>, <<"U+D81B", "U+DE5E">>>>,
      <<<<"U+D81B", "U+DE7F">>, <<"U+D81B", "U+DE5F">>>>,
      <<<<"U+D81B", "U+DEBB">>, <<"U+D81B", "U+DEA0">>>>,
      <<<<"U+D81B", "U+DEBC">>, <<"U+D81B", "U+DEA1">>>>,
      <<<<"U+D81B", "U+DEBD">>, <<"U+D81B", "U+DEA2">>>>,
      <<<<"U+D81B", "U+DEBE">>, <<"U+D81B", "U+DEA3">>>>,
      <<<<"U+D81B", "U+DEBF">>, <<"U+D81B", "U+DEA4">>>>,
      <<<<"U+D81B", "U+DEC0">>, <<"U+D81B", "U+DEA5">>>>,
      <<<<"U+D81B", "U+DEC1">>, <<"U+D81B", "U+DEA6">>>>,
      <<<<"U+D81B", "U+DEC2">>, <<"U+D81B", "U+DEA7">>>>,
      <<<<"U+D81B", "U+DEC3">>, <<"U+D81B", "U+DEA8">>>>,
      <<<<"U+D81B", "U+DEC4">>, <<"U+D81B", "U+DEA9">>>>,
      <<<<"U+D81B", "U+DEC5">>, <<"U+D81B", "U+DEAA">>>>,
      <<<<"U+D81B", "U+DEC6">>, <<"U+D81B", "U+DEAB">>>>,
      <<<<"U+D81B", "U+DEC7">>, <<"U+D81B", "U+DEAC">>>>,
      <<<<"U+D81B", "U+DEC8">>, <<"U+D81B", "U+DEAD">>>>,
      <<<<"U+D81B", "U+DEC9">>, <<"U+D81B", "U+DEAE">>>>,
      <<<<"U+D81B", "U+DECA">>, <<"U+D81B", "U+DEAF">>>>,
      <<<<"U+D81B", "U+DECB">>, <<"U+D81B", "U+DEB0">>>>,
      <<<<"U+D81B", "U+DECC">>, <<"U+D81B", "U+DEB1">>>>,
      <<<<"U+D81B", "U+DECD">>, <<"U+D81B", "U+DEB2">>>>,
      <<<<"U+D81B", "U+DECE">>, <<"U+D81B", "U+DEB3">>>>,
      <<<<"U+D81B", "U+DECF">>, <<"U+D81B", "U+DEB4">>>>,
      <<<<"U+D81B", "U+DED0">>, <<"U+D81B", "U+DEB5">>>>,
      <<<<"U+D81B", "U+DED1">>, <<"U+D81B", "U+DEB6">>>>,
      <<<<"U+D81B", "U+DED2">>, <<"U+D81B", "U+DEB7">>>>,
      <<<<"U+D81B", "U+DED3">>, <<"U+D81B", "U+DEB8">>>>,
      <<<<"U+D83A", "U+DD22">>, <<"U+D83A", "U+DD00">>>>,
      <<<<"U+D83A", "U+DD23">>, <<"U+D83A", "U+DD01">>>>,
      <<<<"U+D83A", "U+DD24">>, <<"U+D83A", "U+DD02">>>>,
      <<<<"U+D83A", "U+DD25">>, <<"U+D83A", "U+DD03">>>>,
      <<<<"U+D83A", "U+DD26">>, <<"U+D83A", "U+DD04">>>>,
      <<<<"U+D83A", "U+DD27">>, <<"U+D83A", "U+DD05">>>>,
      <<<<"U+D83A", "U+DD28">>, <<"U+D83A", "U+DD06">>>>,
      <<<<"U+D83A", "U+DD29">>, <<"U+D83A", "U+DD07">>>>,
      <<<<"U+D83A", "U+DD2A">>, <<"U+D83A", "U+DD08">>>>,
      <<<<"U+D83A", "U+DD2B">>, <<"U+D83A", "U+DD09">>>>,
      <<<<"U+D83A", "U+DD2C">>, <<"U+D83A", "U+DD0A">>>>,
      <<<<"U+D83A", "U+DD2D">>, <<"U+D83A", "U+DD0B">>>>,
      <<<<"U+D83A", "U+DD2E">>, <<"U+D83A", "U+DD0C">>>>,
      <<<<"U+D83A", "U+DD2F">>, <<"U+D83A", "U+DD0D">>>>,
      <<<<"U+D83A", "U+DD30">>, <<"U+D83A", "U+DD0E">>>>,
      <<<<"U+D83A", "U+DD31">>, <<"U+D83A", "U+DD0F">>>>,
      <<<<"U+D83A", "U+DD32">>, <<"U+D83A", "U+DD10">>>>,
      <<<<"U+D83A", "U+DD33">>, <<"U+D83A", "U+DD11">>>>,
      <<<<"U+D83A", "U+DD34">>, <<"U+D83A", "U+DD12">>>>,
      <<<<"U+D83A", "U+DD35">>, <<"U+D83A", "U+DD13">>>>,
      <<<<"U+D83A", "U+DD36">>, <<"U+D83A", "U+DD14">>>>,
      <<<<"U+D83A", "U+DD37">>, <<"U+D83A", "U+DD15">>>>,
      <<<<"U+D83A", "U+DD38">>, <<"U+D83A", "U+DD16">>>>,
      <<<<"U+D83A", "U+DD39">>, <<"U+D83A", "U+DD17">>>>,
      <<<<"U+D83A", "U+DD3A">>, <<"U+D83A", "U+DD18">>>>,
      <<<<"U+D83A", "U+DD3B">>, <<"U+D83A", "U+DD19">>>>,
      <<<<"U+D83A", "U+DD3C">>, <<"U+D83A", "U+DD1A">>>>,
      <<<<"U+D83A", "U+DD3D">>, <<"U+D83A", "U+DD1B">>>>,
      <<<<"U+D83A", "U+DD3E">>, <<"U+D83A", "U+DD1C">>>>,
      <<<<"U+D83A", "U+DD3F">>, <<"U+D83A", "U+DD1D">>>>,
      <<<<"U+D83A", "U+DD40">>, <<"U+D83A", "U+DD1E">>>>,
      <<<<"U+D83A", "U+DD41">>, <<"U+D83A", "U+DD1F">>>>,
      <<<<"U+D83A", "U+DD42">>, <<"U+D83A", "U+DD20">>>>,
      <<<<"U+D83A", "U+DD43">>, <<"U+D83A", "U+DD21">>>>>>

UpperKeys == {UpperTable[i][1] : i \in 1..Len(UpperTable)}

\* toUpperCase of the one character k that UpperTable lists
UpperOf(k) ==
    UpperTable[CHOOSE i \in 1..Len(UpperTable) : UpperTable[i][1] = k][2]

\* String.prototype.toUpperCase on a string of one code unit: a string of
\* one, two or three code units
UpperChar(c) ==
    IF \E i \in 1..26 : Lower[i] = c
    THEN <<Upper[CHOOSE i \in 1..26 : Lower[i] = c]>>
    ELSE IF <<c>> \in UpperKeys THEN UpperOf(<<c>>)
    ELSE <<c>>

RECURSIVE ToUpperCase(_)
\* String.prototype.toUpperCase: character by character, where two
\* surrogates that form a character are one character and a lone surrogate
\* stays as it is
ToUpperCase(s) ==
    IF s = <<>> THEN <<>>
    ELSE IF Len(s) >= 2 /\ SubSeq(s, 1, 2) \in UpperKeys
    THEN UpperOf(SubSeq(s, 1, 2)) \o ToUpperCase(SubSeq(s, 3, Len(s)))
    ELSE UpperChar(Head(s)) \o ToUpperCase(Tail(s))

\* String.prototype.substring(0, n)
Substring0(s, n) == SubSeq(s, 1, IF Len(s) < n THEN Len(s) ELSE n)

(***************************************************************************)
(* Numbers.  A Number is NaN, +Infinity, -Infinity, or the finite value    *)
(* (-1)^neg * digs * 10^pw, where digs is a sequence of decimal digits     *)
(* without leading or trailing zeros (empty for zero).  A finite double is *)
(* held as the shortest decimal that rounds to it, which is the decimal    *)
(* that String(x) shows.                                                   *)
(***************************************************************************)
NaN == [nan |-> TRUE, inf |-> FALSE, neg |-> FALSE, digs |-> <<>>, pw |-> 0]
Infinity(neg) ==
    [nan |-> FALSE, inf |-> TRUE, neg |-> neg, digs |-> <<>>, pw |-> 0]

\* digits without their leading zeros
StripLeft(ds) ==
    IF ds = <<>> \/ Head(ds) # "0" THEN ds
    ELSE IF \A i \in 1..Len(ds) : ds[i] = "0" THEN <<>>
    ELSE SubSeq(ds, CHOOSE i \in 1..Len(ds) :
                        ds[i] # "0" /\ \A j \in 1..(i - 1) : ds[j] = "0",
                Len(ds))

\* the number of trailing zeros of digits that are not all zeros
ZerosRight(ds) ==
    IF ds[Len(ds)] # "0" THEN 0
    ELSE Len(ds) - (CHOOSE i \in 1..Len(ds) :
                        ds[i] # "0" /\ \A j \in (i + 1)..Len(ds) : ds[j] = "0")

\* the finite value (-1)^neg * ds * 10^pw, ds any sequence of digits
Finite(neg, ds, pw) ==
    LET l == StripLeft(ds)
        z == ZerosRight(l)
    IN  IF l = <<>>
        THEN [nan |-> FALSE, inf |-> FALSE, neg |-> neg, digs |-> <<>>,
              pw |-> 0]
        ELSE [nan |-> FALSE, inf |-> FALSE, neg |-> neg,
              digs |-> SubSeq(l, 1, Len(l) - z), pw |-> pw + z]

\* the integer n times 10^(-e)
Dec(n, e) ==
    IF n < 0 THEN Finite(TRUE, NatToStr(0 - n), 0 - e)
    ELSE Finite(FALSE, NatToStr(n), 0 - e)

\* the i-th digit of ds, zero past its end
DigitAt(ds, i) == IF i <= Len(ds) THEN DigitVal(ds[i]) ELSE 0

\* 0.x < 0.y for digit sequences x and y
DigLess(x, y) ==
    \E i \in 1..(IF Len(x) < Len(y) THEN Len(y) ELSE Len(x)) :
        /\ DigitAt(x, i) < DigitAt(y, i)
        /\ \A j \in 1..(i - 1) : DigitAt(x, j) = DigitAt(y, j)

\* |a| < |b| for finite a and b that are not zero
MagLess(a, b) ==
    LET oa == Len(a.digs) + a.pw
        ob == Len(b.digs) + b.pw
    IN  IF oa # ob THEN oa < ob ELSE DigLess(a.digs, b.digs)

\* -1, 0, 1: the sign of a finite or infinite number
Sgn(a) ==
    IF ~a.inf /\ a.digs = <<>> THEN 0 ELSE IF a.neg THEN 0 - 1 ELSE 1

\* a < b on numbers: false when either side is NaN
NumLess(a, b) ==
    /\ ~a.nan
    /\ ~b.nan
    /\ IF Sgn(a) # Sgn(b) THEN Sgn(a) < Sgn(b)
       ELSE IF Sgn(a) = 0 THEN FALSE
       ELSE LET x == IF a.neg THEN b ELSE a
                y == IF a.neg THEN a ELSE b
            IN  IF x.inf THEN FALSE
                ELSE IF y.inf THEN TRUE
                ELSE MagLess(x, y)

(***************************************************************************)
(* Natural numbers of any size, for the rounding of a decimal to a double: *)
(* the sequence of the decimal digits, as integers, most significant       *)
(* first, and the empty sequence for zero.                                 *)
(***************************************************************************)
BigOf(ds) == <<>> \o [i \in 1..Len(ds) |-> DigitVal(ds[i])]
BigDigits(a) == <<>> \o [i \in 1..Len(a) |-> Digits[a[i] + 1]]

BigTrim(a) ==
    IF \A i \in 1..Len(a) : a[i] = 0 THEN <<>>
    ELSE SubSeq(a, CHOOSE i \in 1..Len(a) :
                       a[i] # 0 /\ \A j \in 1..(i - 1) : a[j] = 0,
                Len(a))

BigLess(a, b) ==
    IF Len(a) # Len(b) THEN Len(a) < Len(b)
    ELSE \E i \in 1..Len(a) :
             a[i] < b[i] /\ \A j \in 1..(i - 1) : a[j] = b[j]

\* 2 * a: a digit takes a carry exactly when the digit after it is 5 or more
BigDbl(a) ==
    IF a = <<>> THEN <<>>
    ELSE (IF a[1] >= 5 THEN <<1>> ELSE <<>>)
         \o [i \in 1..Len(a) |->
                ((2 * a[i]) % 10)
                    + (IF i < Len(a) /\ a[i + 1] >= 5 THEN 1 ELSE 0)]

\* a \div 2: a digit takes 5 exactly when the digit before it is odd
BigHalf(a) ==
    BigTrim(<<>> \o [i \in 1..Len(a) |->
                        (a[i] \div 2)
                            + (IF i > 1 /\ a[i - 1] % 2 = 1 THEN 5 ELSE 0)])

\* 5 * a
BigTimes5(a) == IF a = <<>> THEN <<>> ELSE BigHalf(a \o <<0>>)

\* a * 10^k
BigShift(a, k) == IF a = <<>> THEN <<>> ELSE a \o [i \in 1..k |-> 0]

RECURSIVE BigDblN(_, _)
\* a * 2^k, by halves of k (the first half is computed before the second
\* is entered, which keeps the evaluation shallow)
BigDblN(a, k) ==
    IF k = 0 THEN a
    ELSE IF k = 1 THEN BigDbl(a)
    ELSE LET h == BigDblN(a, k \div 2)
         IN  IF Len(h) >= 0 THEN BigDblN(h, k - (k \div 2)) ELSE <<>>

RECURSIVE BigTimes5N(_, _)
\* a * 5^k
BigTimes5N(a, k) ==
    IF k = 0 THEN a
    ELSE IF k = 1 THEN BigTimes5(a)
    ELSE LET h == BigTimes5N(a, k \div 2)
         IN  IF Len(h) >= 0 THEN BigTimes5N(h, k - (k \div 2)) ELSE <<>>

\* a + 1
BigInc(a) ==
    IF \A i \in 1..Len(a) : a[i] = 9
    THEN <<1>> \o [i \in 1..Len(a) |-> 0]
    ELSE LET p == CHOOSE i \in 1..Len(a) :
                      a[i] # 9 /\ \A j \in (i + 1)..Len(a) : a[j] = 9
         IN  <<>> \o [i \in 1..Len(a) |->
                         IF i < p THEN a[i] ELSE IF i = p THEN a[i] + 1 ELSE 0]

\* a - b for a >= b: a digit lends exactly when, after it, a is below b
BigSub(a, b) ==
    LET n == Len(a)
        sh == n - Len(b)
        bb(i) == IF i > sh THEN b[i - sh] ELSE 0
        diff == {j \in 1..n : a[j] # bb(j)}
        lend(i) ==
            LET after == {j \in diff : j > i}
            IN  IF after = {} THEN 0
                ELSE LET j == CHOOSE u \in after : \A w \in after : u <= w
                     IN  IF a[j] < bb(j) THEN 1 ELSE 0
    IN  BigTrim(<<>> \o [i \in 1..n |-> (a[i] - bb(i) - lend(i) + 10) % 10])


\* 2^52 and 2^53
Two52 == <<4, 5, 0, 3, 5, 9, 9, 6, 2, 7, 3, 7, 0, 4, 9, 6>>
Two53 == <<9, 0, 0, 7, 1, 9, 9, 2, 5, 4, 7, 4, 0, 9, 9, 2>>

\* 2 * q + 1 for the bit, 2 * q without
BigPushBit(q, bit) ==
    IF ~bit THEN BigDbl(q)
    ELSE IF q = <<>> THEN <<1>>
    ELSE [BigDbl(q) EXCEPT ![Len(BigDbl(q))] = @ + 1]

RECURSIVE BigDivBits(_, _, _, _)
\* a \div c and the rest, for a < 2^(k+1) * c: the bits of the quotient from
\* the highest, r being what is left of a, t being c * 2^k, q the bits so far
BigDivBits(r, t, k, q) ==
    LET r1 == IF BigLess(r, t) THEN r ELSE BigSub(r, t)
        q1 == BigPushBit(q, ~BigLess(r, t))
    IN  IF k = 0 THEN [q |-> q1, r |-> r1]
        ELSE IF Len(r1) + Len(q1) >= 0
        THEN BigDivBits(r1, BigHalf(t), k - 1, q1)
        ELSE [q |-> <<>>, r |-> <<>>]

\* at most the integer part of log2(10^t), and at least that less 2
Log2Floor(t) ==
    IF t >= 0 THEN (t * 33219) \div 10000
    ELSE 0 - (((0 - t) * 33220 + 9999) \div 10000)

\* a binary exponent to start from for a value in [10^(om-1), 10^om): at
\* most the exponent e of its double m * 2^e, at least e - 8, and at least
\* -1074, the exponent of the subnormal doubles
FirstExponent(om) ==
    IF Log2Floor(om - 1) - 53 < 0 - 1074 THEN 0 - 1074
    ELSE Log2Floor(om - 1) - 53

\* a / (c * 2^k) < 2^53
FitsAt(a, c, k) == BigLess(a, BigDblN(c, k + 53))

\* does a / c round up to the next integer, d being its quotient and rest:
\* past the half, or at the half from an odd quotient
RoundsUp(d, c) ==
    \/ BigLess(c, BigDbl(d.r))
    \/ BigDbl(d.r) = c /\ d.q # <<>> /\ d.q[Len(d.q)] % 2 = 1

\* the double m * 2^e, with m of 53 bits unless e = -1074; inf when it is
\* beyond the largest double
DoubleOf(m, e) ==
    IF m = Two53 THEN [inf |-> e + 1 > 971, m |-> Two52, e |-> e + 1]
    ELSE [inf |-> e > 971, m |-> m, e |-> e]

\* a / c rounded to the nearest integer, ties to the even one, times 2^e
RoundedQuotient(a, c, e) ==
    LET d == BigDivBits(a, BigDblN(c, 52), 52, <<>>)
    IN  DoubleOf(IF RoundsUp(d, c) THEN BigInc(d.q) ELSE d.q, e)

\* the double nearest to (a / c) * 2^e0, e0 a first exponent for it: the
\* exponent is raised until the quotient has 53 bits or fewer
NearestFrom(a, c, e0) ==
    LET k == CHOOSE j \in 0..8 :
                 FitsAt(a, c, j) /\ \A i \in 0..(j - 1) : ~FitsAt(a, c, i)
    IN  RoundedQuotient(a, BigDblN(c, k), e0 + k)

\* the double nearest to num / den, a value in [10^(om-1), 10^om)
NearestRatio(num, den, e0) ==
    NearestFrom(IF e0 < 0 THEN BigDblN(num, 0 - e0) ELSE num,
                IF e0 > 0 THEN BigDblN(den, e0) ELSE den, e0)

\* the double nearest to ds * 10^pw (ties to the even significand), for
\* digits ds without leading zeros, not empty: [inf, m, e] for the value
\* m * 2^e
NearestDouble(ds, pw) ==
    NearestRatio(BigShift(BigOf(ds), IF pw > 0 THEN pw ELSE 0),
                 BigShift(<<1>>, IF pw < 0 THEN 0 - pw ELSE 0),
                 FirstExponent(Len(ds) + pw))

\* x * 2^s, as an integer times 10^s when s < 0
BigScale(x, s) == IF s >= 0 THEN BigDblN(x, s) ELSE BigTimes5N(x, 0 - s)

\* x rounds to the double whose neighbours are halfway at lo and hi; the
\* halfway points round to it when its significand is even
RoundsInside(x, lo, hi, even) ==
    IF even THEN ~BigLess(x, lo) /\ ~BigLess(hi, x)
    ELSE BigLess(lo, x) /\ BigLess(x, hi)

\* v cut to its first k digits, and the next number of k digits above
CutDown(v, k) == BigShift(SubSeq(v, 1, k), Len(v) - k)
CutAbove(v, k) == BigShift(BigInc(SubSeq(v, 1, k)), Len(v) - k)

\* some number of k digits rounds to the double
HasShort(v, lo, hi, even, k) ==
    \/ k >= Len(v)
    \/ RoundsInside(CutDown(v, k), lo, hi, even)
    \/ RoundsInside(CutAbove(v, k), lo, hi, even)

\* of dn below v and ab above it the nearer to v, and the one whose last
\* digit is even when they are as near
Nearer(v, dn, ab, k) ==
    IF BigLess(BigSub(v, dn), BigSub(ab, v)) THEN dn
    ELSE IF BigLess(BigSub(ab, v), BigSub(v, dn)) THEN ab
    ELSE IF v[k] % 2 = 0 THEN dn ELSE ab

\* the number of k digits that rounds to the double v, the nearest to it
ShortOf(v, lo, hi, even, k) ==
    IF k >= Len(v) THEN v
    ELSE IF ~RoundsInside(CutAbove(v, k), lo, hi, even) THEN CutDown(v, k)
    ELSE IF ~RoundsInside(CutDown(v, k), lo, hi, even) THEN CutAbove(v, k)
    ELSE Nearer(v, CutDown(v, k), CutAbove(v, k), k)

\* the shortest of the numbers that round to the double v
ShortestOf(v, lo, hi, even) ==
    ShortOf(v, lo, hi, even,
            CHOOSE k \in 1..Len(v) :
                /\ HasShort(v, lo, hi, even, k)
                /\ \A i \in 1..(k - 1) : ~HasShort(v, lo, hi, even, i))

\* the shortest decimal that rounds to the double m * 2^e, and of several
\* the nearest to it: the digits and the exponent that String(m * 2^e)
\* shows.  m4 is 4 * m: the double is m4 * 2^(e-2), the halfway point above
\* it (m4 + 2) * 2^(e-2), the one below (m4 - 2) * 2^(e-2), or
\* (m4 - 1) * 2^(e-2) where the doubles below are twice as dense.
ShortestFrom(neg, m, e, m4) ==
    Finite(neg,
           BigDigits(ShortestOf(
               BigScale(m4, e - 2),
               BigScale(BigSub(m4, IF m = Two52 /\ e > 0 - 1074
                                   THEN <<1>> ELSE <<2>>), e - 2),
               BigScale(BigInc(BigInc(m4)), e - 2),
               m[Len(m)] % 2 = 0)),
           IF e - 2 >= 0 THEN 0 ELSE e - 2)

ShortestDecimal(neg, m, e) == ShortestFrom(neg, m, e, BigDbl(BigDbl(m)))

\* the Number that is the double d
NumberOf(neg, d) ==
    IF d.inf THEN Infinity(neg)
    ELSE IF d.m = <<>> THEN Finite(neg, <<>>, 0)
    ELSE ShortestDecimal(neg, d.m, d.e)

\* the Number nearest to the finite value x, not zero.  A decimal of at most
\* 15 digits within the range of the normal doubles is itself the shortest
\* decimal that rounds to its double.
Rounded(x, om) ==
    IF Len(x.digs) <= 15 /\ om >= 0 - 306 /\ om <= 308 THEN x
    ELSE IF om >= 311 THEN Infinity(x.neg)
    ELSE IF om <= 0 - 325 THEN Finite(x.neg, <<>>, 0)
    ELSE NumberOf(x.neg, NearestDouble(x.digs, x.pw))

\* the Number that the decimal (-1)^neg * ds * 10^pw denotes: the double
\* nearest to it
ToNumberOf(x) == IF x.digs = <<>> THEN x ELSE Rounded(x, Len(x.digs) + x.pw)
ToNumber(neg, ds, pw) == ToNumberOf(Finite(neg, ds, pw))

(***************************************************************************)
(* parseFloat: white space, then the longest prefix that is a decimal      *)
(* literal (a sign, Infinity or digits with a fraction, an exponent);      *)
(* whatever follows is ignored.                                            *)
(***************************************************************************)
\* the white space and the line terminators that parseFloat skips
WhiteSpace ==
    {"\t", "\n", "U+000B", "\f", "\r", " ", "U+00A0", "U+1680", "U+2000",
     "U+2001", "U+2002", "U+2003", "U+2004", "U+2005", "U+2006", "U+2007",
     "U+2008", "U+2009", "U+200A", "U+2028", "U+2029", "U+202F", "U+205F",
     "U+3000", "U+FEFF"}

\* the string without the white space it begins with
SkipBlanks(s) ==
    IF \A i \in 1..Len(s) : s[i] \in WhiteSpace THEN <<>>
    ELSE SubSeq(s, CHOOSE i \in 1..Len(s) :
                       /\ s[i] \notin WhiteSpace
                       /\ \A j \in 1..(i - 1) : s[j] \in WhiteSpace,
                Len(s))

\* the longest prefix of s made of digits
DigitRun(s) ==
    IF \A i \in 1..Len(s) : s[i] \in DigitSet THEN s
    ELSE SubSeq(s, 1, (CHOOSE i \in 1..Len(s) :
                           /\ s[i] \notin DigitSet
                           /\ \A j \in 1..(i - 1) : s[j] \in DigitSet) - 1)

RECURSIVE DigitsVal(_)
DigitsVal(ds) ==
    IF ds = <<>> THEN 0
    ELSE 10 * DigitsVal(SubSeq(ds, 1, Len(ds) - 1)) + DigitVal(ds[Len(ds)])

\* the value of the digits of an exponent as they are written, and
\* 1000000000 when it is that or more: a string has fewer than 2^29
\* characters, so with such an exponent its mantissa is zero or its value is
\* beyond (below, for a negative exponent) every double, one way or the other
ExponentVal(ds) ==
    IF Len(StripLeft(ds)) > 9 THEN 1000000000 ELSE DigitsVal(StripLeft(ds))

\* s without the sign it may begin with
Unsigned(s) == IF s # <<>> /\ Head(s) \in {"-", "+"} THEN Tail(s) ELSE s

\* the exponent that s, what follows an e, begins with: a sign and digits
SignedExponent(s) ==
    IF s # <<>> /\ Head(s) = "-" THEN 0 - ExponentVal(DigitRun(Unsigned(s)))
    ELSE ExponentVal(DigitRun(Unsigned(s)))

\* the exponent part that s begins with, 0 without one
ExponentPart(s) ==
    IF s # <<>> /\ Head(s) \in {"e", "E"} THEN SignedExponent(Tail(s)) ELSE 0

\* the value of the digits ip before the point and fp after it, with what
\* follows them
ParseMantissa(neg, ip, fp, rest) ==
    IF ip = <<>> /\ fp = <<>> THEN NaN
    ELSE ToNumber(neg, ip \o fp, ExponentPart(rest) - Len(fp))

\* the digits fp of the fraction are the start of s, what follows the point
ParseFraction(neg, ip, fp, s) ==
    ParseMantissa(neg, ip, fp, SubSeq(s, Len(fp) + 1, Len(s)))

\* s is what follows the digits ip
ParsePoint(neg, ip, s) ==
    IF s # <<>> /\ Head(s) = "."
    THEN ParseFraction(neg, ip, DigitRun(Tail(s)), Tail(s))
    ELSE ParseMantissa(neg, ip, <<>>, s)

\* the digits ip are the start of s
ParseDigits(neg, ip, s) == ParsePoint(neg, ip, SubSeq(s, Len(ip) + 1, Len(s)))

\* s is what follows the sign
ParseUnsigned(neg, s) ==
    IF Len(s) >= 8
       /\ SubSeq(s, 1, 8) = <<"I", "n", "f", "i", "n", "i", "t", "y">>
    THEN Infinity(neg)
    ELSE ParseDigits(neg, DigitRun(s), s)

\* s begins with no white space
ParseSigned(s) == ParseUnsigned(s # <<>> /\ Head(s) = "-", Unsigned(s))

ParseFloatStr(s0) == ParseSigned(SkipBlanks(s0))

\* parseFloat(v): the argument is converted to a string first
ParseFloat(v) ==
    CASE v.t = "num" -> Dec(v.n, 0)
      [] v.t = "str" -> ParseFloatStr(v.s)
      [] v.t = "undef" -> NaN

(***************************************************************************)
(* Calendar dates and the Date arithmetic of generateLicense.  A time is a *)
(* date with the milliseconds since its midnight, as new Date() reads it   *)
(* and as toISOString() writes it (the clock is taken to run on UTC).      *)
(***************************************************************************)
MkDate(y, m, d) == [y |-> y, m |-> m, d |-> d]
MkTime(dt, ms) == [y |-> dt.y, m |-> dt.m, d |-> dt.d, ms |-> ms]
\* no time: the createdAt or updatedAt that a record does not have
NoDate == MkTime(MkDate(0, 0, 0), 0)
StartDate == MkDate(2024, 1, 31)
\* the last millisecond of a day, 23:59:59.999
LastMilli == 86399999
DateOf(t) == MkDate(t.y, t.m, t.d)

IsLeap(y) == (y % 4 = 0 /\ y % 100 # 0) \/ y % 400 = 0

DaysIn(y, m) ==
    IF m = 2 THEN (IF IsLeap(y) THEN 29 ELSE 28)
    ELSE IF m \in {4, 6, 9, 11} THEN 30 ELSE 31

RECURSIVE NormDate(_, _, _)
\* the date a Date object holds after its year, month or day was set to
\* values that overflow: month 13 is January of the next year, day 31 of a
\* 30-day month is the 1st of the following month
NormDate(y, m, d) ==
    IF m > 12 THEN NormDate(y + 1, m - 12, d)
    ELSE IF d > DaysIn(y, m) THEN NormDate(y, m + 1, d - DaysIn(y, m))
    ELSE MkDate(y, m, d)

NextDay(dt) == NormDate(dt.y, dt.m, dt.d + 1)

RECURSIVE AddDays(_, _)
AddDays(dt, k) == IF k = 0 THEN dt ELSE AddDays(NextDay(dt), k - 1)

\* the days from 1970-01-01 to the date dt: the years are counted from a
\* 1st of March, so that the leap day ends its year
YearFromMarch(dt) == IF dt.m <= 2 THEN dt.y - 1 ELSE dt.y
DayFromMarch(dt) == ((153 * ((dt.m + 9) % 12) + 2) \div 5) + dt.d - 1
DaysOfYears(n) == 365 * n + (n \div 4) - (n \div 100) + (n \div 400)
DaysFromEpoch(dt) ==
    DaysOfYears(YearFromMarch(dt)) + DayFromMarch(dt) - 719468

\* new Date(createdAt) as a number: NaN for a missing time, otherwise the
\* time value days * 86400000 + ms, in its two parts (the days and the
\* milliseconds of the day)
DateNum(t) ==
    IF t = NoDate THEN [nan |-> TRUE, days |-> 0, ms |-> 0]
    ELSE [nan |-> FALSE, days |-> DaysFromEpoch(t), ms |-> t.ms]

\* the sign of a - b for two time values; the difference is NaN when either
\* is, and sort takes NaN for 0
TimeDiffSign(a, b) ==
    IF a.nan \/ b.nan THEN 0
    ELSE IF a.days # b.days THEN (IF a.days < b.days THEN 0 - 1 ELSE 1)
    ELSE IF a.ms # b.ms THEN (IF a.ms < b.ms THEN 0 - 1 ELSE 1)
    ELSE 0

\* the sign of new Date(t) - new Date(u)
DateDiffSign(t, u) == TimeDiffSign(DateNum(t), DateNum(u))

\* now.setMonth(now.getMonth() + 1)
SetMonthPlus1(dt) == NormDate(dt.y, dt.m + 1, dt.d)
\* the year after, with the month and the day copied as they stand
SetFullYearPlus1Unnormalised(dt) == MkDate(dt.y + 1, dt.m, dt.d)

\* now.setFullYear(now.getFullYear() + 1)
SetFullYearPlus1(dt) == NormDate(dt.y + 1, dt.m, dt.d)

\* `${yyyy}${mm}${dd}`
FormatDate(dt) ==
    NatToStr(dt.y) \o PadStart2(NatToStr(dt.m)) \o PadStart2(NatToStr(dt.d))

(***************************************************************************)
(* Inputs: the request bodies, headers and random draws the handlers are   *)
(* exercised with.                                                         *)
(***************************************************************************)
\* values of Math.floor(1000 + Math.random() * 9000): the two ends of its range
RandomInts == {1000, 9999}

\* 'TT' + Math.floor(Math.random() * 9000): the draw without its offset
MkOrderIdNoOffset(n) == <<"T", "T">> \o NatToStr(n - 1000)

\* 'TT' + n
MkOrderId(n) == <<"T", "T">> \o NatToStr(n)
OrderIdSet == {MkOrderId(n) : n \in RandomInts}

LongMachine == <<"a", "b", "c", "d", "e", "f", "g", "h", "1", "2", "3", "4">>
ShortMachine == <<"a", "b", "c">>
\* a machineId whose first 8 characters are 9 after toUpperCase
SharpMachine == <<"s", "t", "r", "a", "ß", "e", "1", "2", "3">>
Buyer == <<"b", "u", "y", "e", "r", "@", "x", ".", "y">>

MkBody(machineId, email, type, amount) ==
    [machineId |-> machineId, email |-> email, type |-> type, amount |-> amount]

\* bodies of POST /create-order
CreateBodies ==
    { MkBody(Str(LongMachine), Str(Buyer), Str(<<"M">>), Num(200)),
      MkBody(Str(LongMachine), Str(Buyer), Str(<<"M">>), Num(0)),
      MkBody(Undef, Str(<<>>), Undef, Num(200)) }

\* `content` of POST /webhook/sepay
WebhookContents ==
    {Str(id) : id \in OrderIdSet}
    \cup {Str(<<"C", "K", " ">> \o MkOrderId(9999) \o <<"7", " ">>
               \o MkOrderId(1000)),
          Str(<<"T", "T", "1", "2", " ", "n", "o", " ", "c", "o", "d", "e">>),
          Undef}

\* `amount` of POST /webhook/sepay
WebhookAmounts ==
    {Num(200), Str(<<"1", "9", "9", ".", "9", "9">>), Str(<<"a", "b", "c">>),
     Undef}

\* a property every object inherits from Object.prototype
ProtoKey == <<"c", "o", "n", "s", "t", "r", "u", "c", "t", "o", "r">>
\* the accessor of Object.prototype that reads and sets the prototype
ProtoAccessor == <<"_", "_", "p", "r", "o", "t", "o", "_", "_">>
\* the properties an object parsed from JSON inherits from Object.prototype:
\* its methods, which are functions, and __proto__, which reads as
\* Object.prototype itself
ProtoKeys ==
    {ProtoKey, ProtoAccessor,
     <<"_", "_", "d", "e", "f", "i", "n", "e", "G", "e", "t", "t", "e", "r", "_", "_">>,
     <<"_", "_", "d", "e", "f", "i", "n", "e", "S", "e", "t", "t", "e", "r", "_", "_">>,
     <<"h", "a", "s", "O", "w", "n", "P", "r", "o", "p", "e", "r", "t", "y">>,
     <<"_", "_", "l", "o", "o", "k", "u", "p", "G", "e", "t", "t", "e", "r", "_", "_">>,
     <<"_", "_", "l", "o", "o", "k", "u", "p", "S", "e", "t", "t", "e", "r", "_", "_">>,
     <<"i", "s", "P", "r", "o", "t", "o", "t", "y", "p", "e", "O", "f">>,
     <<"p", "r", "o", "p", "e", "r", "t", "y", "I", "s", "E", "n", "u", "m", "e", "r", "a", "b", "l", "e">>,
     <<"t", "o", "S", "t", "r", "i", "n", "g">>,
     <<"v", "a", "l", "u", "e", "O", "f">>,
     <<"t", "o", "L", "o", "c", "a", "l", "e", "S", "t", "r", "i", "n", "g">>}
\* a well-formed id no order was ever created under
UnknownId == <<"T", "T", "5", "5", "5", "5">>

\* orderId of POST /api/approve, :id of DELETE /api/orders/:id
AdminIds == OrderIdSet \cup {UnknownId, ProtoKey}

\* ADMIN_PASS, with the environment variable unset
ADMIN_PASS == Str(<<"a", "d", "m", "i", "n", "1", "2", "3">>)
\* values of the x-admin-pass header
AdminPasses == {ADMIN_PASS, Undef}

(***************************************************************************)
(* The license key.                                                        *)
(***************************************************************************)
\* privateKey.sign(payload, 'base64', 'utf8'): PKCS#1 v1.5 with SHA-256, a
\* function of the payload alone; kept abstract as a tagged payload
Sign(payload) == <<"RSASSA-PKCS1-v1_5-SHA256">> \o payload

\* `${payload}-${signature}`
MkKey(payload) == [payload |-> payload, signature |-> Sign(payload)]
\* no licenseKey property
NoKey == [payload |-> <<>>, signature |-> <<>>]

IsStr(v, s) == v.t = "str" /\ v.s = s

Expiry(type, now) ==
    IF IsStr(type, <<"P">>) THEN <<"F", "O", "R", "E", "V", "E", "R">>
    ELSE IF IsStr(type, <<"M">>) THEN FormatDate(SetMonthPlus1(now))
    ELSE IF IsStr(type, <<"Y">>) THEN FormatDate(SetFullYearPlus1(now))
    ELSE FormatDate(now)

\* `${type}-${machineHash}-${expiry}` for a string machineId
Payload(machineId, type, now) ==
    ToStr(type) \o <<"-">> \o ToUpperCase(Substring0(machineId, 8))
        \o <<"-">> \o Expiry(type, now)

\* generateLicense without its test of privateKey
generateLicenseUnchecked(hasKey, machineId, type, now) ==
    IF machineId.t # "str" THEN [ok |-> FALSE, key |-> NoKey]
    ELSE [ok |-> TRUE, key |-> MkKey(Payload(machineId.s, type, now))]

\* generateLicense(machineId, type) at date now, with or without a private
\* key: it throws (ok = FALSE) without a key, and on a machineId that has no
\* substring method
generateLicense(hasKey, machineId, type, now) ==
    IF ~hasKey THEN [ok |-> FALSE, key |-> NoKey]
    ELSE IF machineId.t # "str" THEN [ok |-> FALSE, key |-> NoKey]
    ELSE [ok |-> TRUE, key |-> MkKey(Payload(machineId.s, type, now))]

(***************************************************************************)
(* The order store: the parsed JSON object, as the sequence of its         *)
(* (key, record) entries in key order.                                     *)
(***************************************************************************)
HasOwn(d, k) == \E i \in 1..Len(d) : d[i].id = k
IndexOf(d, k) == CHOOSE i \in 1..Len(d) : d[i].id = k
Own(d, k) == d[IndexOf(d, k)]

\* db[k] is truthy: an own entry, or a property of Object.prototype
LookupTruthy(d, k) == HasOwn(d, k) \/ k \in ProtoKeys

\* db[orderId] = { ...data, status: 'PENDING', createdAt }
NewRecord(orderId, data, now) ==
    [id |-> orderId, machineId |-> data.machineId, email |-> data.email,
     type |-> data.type, amount |-> data.amount, status |-> "PENDING",
     licenseKey |-> NoKey, createdAt |-> now, updatedAt |-> NoDate]

\* saveOrder spreading the record already stored under the id into the new one
saveOrderMerging(d, orderId, data, now) ==
    IF HasOwn(d, orderId)
    THEN [d EXCEPT ![IndexOf(d, orderId)] =
              [NewRecord(orderId, data, now) EXCEPT
                  !.licenseKey = Own(d, orderId).licenseKey]]
    ELSE Append(d, NewRecord(orderId, data, now))

\* saveOrder: the object after db[orderId] = ...; an existing key keeps its
\* place and its whole record is replaced
saveOrder(d, orderId, data, now) ==
    IF HasOwn(d, orderId)
    THEN [d EXCEPT ![IndexOf(d, orderId)] = NewRecord(orderId, data, now)]
    ELSE Append(d, NewRecord(orderId, data, now))

\* updateOrderStatus that writes nothing
updateOrderStatusSkipped(d, orderId, status, licenseKey, now) == d

\* updateOrderStatus that stores { status, licenseKey, updatedAt } without
\* spreading the record it replaces
updateOrderStatusReplacing(d, orderId, status, licenseKey, now) ==
    IF HasOwn(d, orderId)
    THEN [d EXCEPT ![IndexOf(d, orderId)] =
              [id |-> orderId, machineId |-> Undef, email |-> Undef,
               type |-> Undef, amount |-> Undef, status |-> status,
               licenseKey |-> licenseKey, createdAt |-> NoDate,
               updatedAt |-> now]]
    ELSE d

\* updateOrderStatus(orderId, 'COMPLETED', { licenseKey }): the object that
\* is written back.  An entry of the file is spread and keeps its place.
\* For a key the object inherits the test db[orderId] passes as well: the
\* spread of a function or of Object.prototype has no property, and the
\* assignment adds an entry of status, licenseKey and updatedAt after the
\* others, except that assigning to __proto__ sets the prototype and adds
\* no entry.
updateOrderStatus(d, orderId, status, licenseKey, now) ==
    IF HasOwn(d, orderId)
    THEN [d EXCEPT ![IndexOf(d, orderId)] =
              [@ EXCEPT !.status = status, !.licenseKey = licenseKey,
                        !.updatedAt = now]]
    ELSE IF orderId \in ProtoKeys \ {ProtoAccessor}
    THEN Append(d, [id |-> orderId, machineId |-> Undef, email |-> Undef,
                    type |-> Undef, amount |-> Undef, status |-> status,
                    licenseKey |-> licenseKey, createdAt |-> NoDate,
                    updatedAt |-> now])
    ELSE d

\* delete db[orderId]
deleteKey(d, orderId) ==
    IF HasOwn(d, orderId)
    THEN SubSeq(d, 1, IndexOf(d, orderId) - 1)
             \o SubSeq(d, IndexOf(d, orderId) + 1, Len(d))
    ELSE d

(***************************************************************************)
(* Array.prototype.sort with the comparator of the order list, as the      *)
(* engine sorts an array of fewer than 64 elements: the run the array      *)
(* begins with is found (and reversed when it descends), then every        *)
(* element after it is put in its place by a binary search.  With a        *)
(* comparator that is an order this is the stable sort; the steps are      *)
(* followed one by one because records without createdAt compare as equal  *)
(* to all others, which is no order.                                       *)
(***************************************************************************)
\* (a, b) => new Date(b.createdAt) - new Date(a.createdAt), its sign
CompareCreated(a, b) == DateDiffSign(b.createdAt, a.createdAt)

\* the run goes on at a[i]: the first two elements decide whether it
\* descends strictly or not
RunGoesOn(a, i) ==
    IF CompareCreated(a[2], a[1]) < 0
    THEN CompareCreated(a[i], a[i - 1]) < 0
    ELSE CompareCreated(a[i], a[i - 1]) >= 0

\* the length of the run that a, of two elements or more, begins with
RunLength(a) ==
    CHOOSE r \in 2..Len(a) :
        /\ \A i \in 3..r : RunGoesOn(a, i)
        /\ r = Len(a) \/ ~RunGoesOn(a, r + 1)

Reverse(a) == <<>> \o [i \in 1..Len(a) |-> a[Len(a) + 1 - i]]

\* a with the run it begins with, of length r, made ascending
MakeRun(a, r) ==
    IF CompareCreated(a[2], a[1]) < 0
    THEN Reverse(SubSeq(a, 1, r)) \o SubSeq(a, r + 1, Len(a))
    ELSE a

RECURSIVE InsertionPoint(_, _, _, _)
\* the number of elements that stay before the pivot, searched between
\* left and right
InsertionPoint(a, pivot, left, right) ==
    IF left >= right THEN left
    ELSE IF CompareCreated(pivot, a[left + ((right - left) \div 2) + 1]) < 0
    THEN InsertionPoint(a, pivot, left, left + ((right - left) \div 2))
    ELSE InsertionPoint(a, pivot, left + ((right - left) \div 2) + 1, right)

\* a with its element at start + 1 moved to follow the first p elements
MoveTo(a, start, p) ==
    SubSeq(a, 1, p) \o <<a[start + 1]>> \o SubSeq(a, p + 1, start)
        \o SubSeq(a, start + 2, Len(a))

RECURSIVE BinaryInsertionSort(_, _)
\* a, sorted in its first start elements, with the others inserted
BinaryInsertionSort(a, start) ==
    IF start >= Len(a) THEN a
    ELSE BinaryInsertionSort(
             MoveTo(a, start, InsertionPoint(a, a[start + 1], 0, start)),
             start + 1)

\* the run is made, the rest inserted
SortFromRun(a, r) == BinaryInsertionSort(MakeRun(a, r), r)

\* .sort((a, b) => new Date(b.createdAt) - new Date(a.createdAt))
SortByCreatedDesc(d) == IF Len(d) < 2 THEN d ELSE SortFromRun(d, RunLength(d))

(***************************************************************************)
(* content.match(/TT\d{4}/): the first place where TT and four digits      *)
(* stand, or none.                                                         *)
(***************************************************************************)
MatchAt(s, i) ==
    /\ i + 5 <= Len(s)
    /\ s[i] = "T"
    /\ s[i + 1] = "T"
    /\ \A j \in 2..5 : s[i + j] \in DigitSet

HasMatch(s) == \E i \in 1..Len(s) : MatchAt(s, i)

\* the last place where TT and four digits stand
LastMatch(s) ==
    LET i == CHOOSE k \in 1..Len(s) :
                 MatchAt(s, k) /\ \A j \in (k + 1)..Len(s) : ~MatchAt(s, j)
    IN  SubSeq(s, i, i + 5)

FirstMatch(s) ==
    LET i == CHOOSE k \in 1..Len(s) :
                 MatchAt(s, k) /\ \A j \in 1..(k - 1) : ~MatchAt(s, j)
    IN  SubSeq(s, i, i + 5)

(***************************************************************************)
(* State.                                                                  *)
(***************************************************************************)
VARIABLES
    privateKey,  \* TRUE iff a private key was loaded at startup
    apiKey,      \* TRUE iff process.env.EMAIL_PASS is set
    running,     \* TRUE iff the server process runs
    now,         \* the time of the system clock
    fileExists,  \* TRUE iff the orders file exists
    corrupt,     \* TRUE iff the orders file exists and does not hold JSON
    db,          \* the orders file, parsed: entries in key order (when the
                 \* file is corrupt: what it held before)
    inflight,    \* sendEmail calls waiting for the mail API to answer
    firstKey,    \* history: per id, the first licenseKey generated for it
    stats        \* history: per id, what happened to the order created last

vars ==
    <<privateKey, apiKey, running, now, fileExists, corrupt, db, inflight,
      firstKey, stats>>

ZeroStats == [trig |-> 0, gen |-> 0, commit |-> 0, notif |-> 0]
Bump(n) == IF n < MaxCount THEN n + 1 ELSE n

\* a response: status code and the fields of its JSON body
\* (no handler puts a licenseKey property in its body: the key travels by
\* mail and shows in the records of the order list only)
Resp(http, success, message, error, emailSent, orderId, list) ==
    [http |-> http, success |-> success, message |-> message,
     error |-> error, emailSent |-> emailSent, orderId |-> orderId,
     licenseKey |-> NoKey, list |-> list]
\* no response yet: the handler is suspended in sendEmail
NoResp == Resp(0, "none", <<>>, <<>>, "none", <<>>, <<>>)
\* res.status(http).json({ success, message })
MsgResp(http, success, message) ==
    Resp(http, success, <<message>>, <<>>, "none", <<>>, <<>>)
\* res.status(http).json({ error })
ErrResp(http, error) ==
    Resp(http, "none", <<>>, <<error>>, "none", <<>>, <<>>)
\* res.json({ success: true, emailSent })
SentResp(emailSent) ==
    Resp(200, "true", <<>>, <<>>, IF emailSent THEN "true" ELSE "false",
         <<>>, <<>>)

\* the answer of the framework to an error thrown by a synchronous handler
\* (JSON.parse of a corrupt orders file): status 500, no JSON body
ExpressError == Resp(500, "none", <<>>, <<"SyntaxError">>, "none", <<>>, <<>>)
\* an error that leaves an async handler outside its try block: the promise
\* the handler returned is rejected and the handler sends no answer
Escaped == Resp(0, "none", <<>>, <<"SyntaxError">>, "none", <<>>, <<>>)
\* what becomes of that rejected promise; the repository pins neither the
\* runtime nor the framework:
\*   "exit"    nobody handles it and the runtime ends the process with
\*             code 1 (Node 15 and later, as they start by default)
\*   "warn"    nobody handles it and the process goes on (earlier Node, or
\*             --unhandled-rejections=warn)
\*   "handled" the framework hands it to its error handler (Express 5)
Rejections == {"exit", "warn", "handled"}

(***************************************************************************)
(* A handler is a function of the state and of its request: it yields the  *)
(* response and the state it leaves.  Out(resp) leaves the state as it is. *)
(***************************************************************************)
Out(resp) ==
    [resp |-> resp, running |-> running, now |-> now,
     fileExists |-> fileExists, corrupt |-> corrupt, db |-> db,
     inflight |-> inflight, firstKey |-> firstKey, stats |-> stats]

\* the step of a handler whose outcome is r: a request finds a handler
\* while the process runs, however many calls of sendEmail wait
Apply(r) ==
    /\ running
    /\ running' = r.running
    /\ now' = r.now
    /\ fileExists' = r.fileExists
    /\ corrupt' = r.corrupt
    /\ db' = r.db
    /\ inflight' = r.inflight
    /\ firstKey' = r.firstKey
    /\ stats' = r.stats
    /\ UNCHANGED <<privateKey, apiKey>>

\* the process has started.  Where /tmp exists the store is /tmp/orders.json,
\* which no request has made yet; where it does not, the store is DB_FILE,
\* which line 20 has just made with {} in it
Init ==
    /\ privateKey \in BOOLEAN
    /\ apiKey \in BOOLEAN
    /\ running = TRUE
    /\ now = MkTime(StartDate, LastMilli)
    /\ fileExists \in BOOLEAN
    /\ corrupt = FALSE
    /\ db = <<>>
    /\ inflight = <<>>
    /\ firstKey = [id \in OrderIdSet |-> NoKey]
    /\ stats = [id \in OrderIdSet |-> ZeroStats]

\* the clock passes a midnight: it moves to the first millisecond of the
\* next day, which is one millisecond away when it stands at LastMilli
Tick ==
    /\ \E k \in 0..(MaxDays - 1) : DateOf(now) = AddDays(StartDate, k)
    /\ now' = MkTime(NextDay(now), 0)
    /\ UNCHANGED <<privateKey, apiKey, running, fileExists, corrupt, db,
                   inflight, firstKey, stats>>

\* what a second `new Date()` of the same handler can read after a first one
\* read t: the same millisecond, or the next one where that is the first of
\* the next day
SecondReads(t) ==
    {t} \cup (IF t.ms = LastMilli THEN {MkTime(NextDay(t), 0)} ELSE {})

\* POST /create-order with body `body`, n the random draw (the message is
\* written here without its diacritics).  saveOrder starts from an empty
\* object when the file does not parse, and writes the file anew.
CreateOrderResult(body, n) ==
    IF ~(Truthy(body.machineId) /\ Truthy(body.email) /\ Truthy(body.type)
         /\ Truthy(body.amount))
    THEN Out(ErrResp(400, "Missing required fields"))
    ELSE LET orderId == MkOrderId(n)
         IN  [Out(Resp(200, "true",
                       <<"Vui long chuyen khoan ">> \o ToStr(body.amount)
                           \o <<"d voi noi dung: ">> \o orderId,
                       <<>>, "none", orderId, <<>>))
                EXCEPT !.db = saveOrder(IF corrupt THEN <<>> ELSE db,
                                        orderId, body, now),
                       !.fileExists = TRUE,
                       !.corrupt = FALSE,
                       !.stats = [stats EXCEPT ![orderId] = ZeroStats]]

CreateOrder(body, n) == Apply(CreateOrderResult(body, n))

\* what getOrder returns for a key that Object.prototype, not the file, has:
\* an object without the fields of an order
ProtoOrder(k) ==
    [id |-> k, machineId |-> Undef, email |-> Undef, type |-> Undef,
     amount |-> Undef, status |-> "undefined", licenseKey |-> NoKey,
     createdAt |-> NoDate, updatedAt |-> NoDate]

\* getOrder(orderId), for an orderId with db[orderId] truthy
getOrder(d, orderId) ==
    IF HasOwn(d, orderId) THEN Own(d, orderId) ELSE ProtoOrder(orderId)

\* the response of a handler whose try block threw
Thrown(op) ==
    IF op = "webhook" THEN ErrResp(500, "Internal Server Error")
    ELSE MsgResp(500, "false", "Internal Error")

\* the arguments of a sendEmail call that waits for the mail API
Mail(op, to, licenseKey, orderId) ==
    [op |-> op, to |-> to, licenseKey |-> licenseKey, orderId |-> orderId]

\* the common tail of the webhook and of the approval: generateLicense,
\* updateOrderStatus, sendEmail up to its fetch.  order is what getOrder
\* returned; counted says whether the request counts as a fulfilment trigger.
\* generateLicense reads the clock (now) and updateOrderStatus reads it again
\* (later), and the clock stands there when the handler has run.
Fulfil(op, order, counted, later) ==
    LET gl == generateLicense(privateKey, order.machineId, order.type, now)
        id == order.id
        tr == IF counted THEN Bump(stats[id].trig) ELSE stats[id].trig
    IN  IF ~gl.ok
        THEN [Out(Thrown(op)) EXCEPT
                !.stats = IF HasOwn(db, id)
                          THEN [stats EXCEPT ![id].trig = tr] ELSE stats]
        ELSE [Out(IF apiKey THEN NoResp ELSE SentResp(FALSE)) EXCEPT
                !.now = later,
                !.db = updateOrderStatus(db, id, "COMPLETED", gl.key, later),
                !.firstKey = IF firstKey[id] = NoKey
                             THEN [firstKey EXCEPT ![id] = gl.key]
                             ELSE firstKey,
                !.stats = [stats EXCEPT ![id] =
                              [trig |-> tr, gen |-> Bump(@.gen),
                               commit |-> Bump(@.commit),
                               notif |-> Bump(@.notif)]],
                !.inflight = IF apiKey
                             THEN Append(inflight,
                                      Mail(op, order.email, gl.key, id))
                             ELSE inflight]

\* the paid amount is a number and not below the required one
AmountSatisfies(paid, required) ==
    LET p == ParseFloat(paid)
        r == ParseFloat(required)
    IN  ~p.nan /\ ~r.nan /\ ~NumLess(p, r)

\* POST /webhook/sepay with body { content, amount }
WebhookResult(content, amount, later) ==
    IF content.t # "str" THEN Out(Thrown("webhook"))
    ELSE IF ~HasMatch(content.s)
    THEN Out(MsgResp(200, "false", "No order code found"))
    ELSE IF fileExists /\ corrupt THEN Out(Thrown("webhook"))
    ELSE IF ~fileExists \/ ~LookupTruthy(db, FirstMatch(content.s))
    THEN Out(MsgResp(200, "false", "Order not found"))
    ELSE LET order == getOrder(db, FirstMatch(content.s))
             counted == AmountSatisfies(amount, order.amount)
         IN  IF order.status = "COMPLETED"
             THEN [Out(MsgResp(200, "true", "Order already completed"))
                     EXCEPT !.stats =
                         IF counted
                         THEN [stats EXCEPT ![order.id].trig = Bump(@)]
                         ELSE stats]
             ELSE IF NumLess(ParseFloat(amount), ParseFloat(order.amount))
             THEN Out(MsgResp(200, "false", "Insufficient amount"))
             ELSE Fulfil("webhook", order, counted, later)

Webhook(content, amount, later) == Apply(WebhookResult(content, amount, later))

\* checkAdmin
checkAdmin(pass) == pass = ADMIN_PASS

Unauthorized == Out(MsgResp(401, "false", "Unauthorized"))

\* getOrder threw in the approval, before its try block: the answer that
\* the framework gives, or no answer, and then with the process ended (the
\* handlers that waited in sendEmail end with it) or going on
Rejected(rejection) ==
    IF rejection = "handled" THEN Out(ExpressError)
    ELSE IF rejection = "warn" THEN Out(Escaped)
    ELSE [Out(Escaped) EXCEPT !.running = FALSE, !.inflight = <<>>]

\* the approval without its test of the order's status
ApproveResultNoStatusTest(pass, orderId, later, rejection) ==
    IF ~checkAdmin(pass) THEN Unauthorized
    ELSE IF fileExists /\ corrupt THEN Rejected(rejection)
    ELSE IF ~fileExists \/ ~LookupTruthy(db, orderId)
    THEN Out(MsgResp(404, "false", "Order not found"))
    ELSE Fulfil("approve", getOrder(db, orderId), TRUE, later)

\* POST /api/approve with header x-admin-pass and body { orderId }
ApproveResult(pass, orderId, later, rejection) ==
    IF ~checkAdmin(pass) THEN Unauthorized
    ELSE IF fileExists /\ corrupt THEN Rejected(rejection)
    ELSE IF ~fileExists \/ ~LookupTruthy(db, orderId)
    THEN Out(MsgResp(404, "false", "Order not found"))
    ELSE LET order == getOrder(db, orderId)
         IN  IF order.status = "COMPLETED"
             THEN [Out(MsgResp(200, "false", "Order already completed"))
                     EXCEPT !.stats = [stats EXCEPT ![orderId].trig = Bump(@)]]
             ELSE Fulfil("approve", order, TRUE, later)

Approve(pass, orderId, later, rejection) == Apply(ApproveResult(pass, orderId, later, rejection))

\* GET /api/orders
ListOrdersResult(pass) ==
    IF ~checkAdmin(pass) THEN Unauthorized
    ELSE IF fileExists /\ corrupt THEN Out(ExpressError)
    ELSE Out(Resp(200, "none", <<>>, <<>>, "none", <<>>,
                  IF fileExists THEN SortByCreatedDesc(db) ELSE <<>>))

ListOrders(pass) == Apply(ListOrdersResult(pass))

\* a delete that waits while a notification for the order is outstanding
DeleteOrderResultWaiting(pass, orderId) ==
    IF ~checkAdmin(pass) THEN Unauthorized
    ELSE IF \E i \in 1..Len(inflight) : inflight[i].orderId = orderId
    THEN Out(NoResp)
    ELSE IF fileExists /\ LookupTruthy(db, orderId)
    THEN [Out(Resp(200, "true", <<>>, <<>>, "none", <<>>, <<>>))
            EXCEPT !.db = deleteKey(db, orderId)]
    ELSE Out(MsgResp(404, "false", "Not found"))

\* DELETE /api/orders/:id
DeleteOrderResult(pass, orderId) ==
    IF ~checkAdmin(pass) THEN Unauthorized
    ELSE IF fileExists /\ corrupt THEN Out(ExpressError)
    ELSE IF fileExists /\ LookupTruthy(db, orderId)
    THEN [Out(Resp(200, "true", <<>>, <<>>, "none", <<>>, <<>>))
            EXCEPT !.db = deleteKey(db, orderId)]
    ELSE Out(MsgResp(404, "false", "Not found"))

DeleteOrder(pass, orderId) == Apply(DeleteOrderResult(pass, orderId))

RemoveAt(q, i) == SubSeq(q, 1, i - 1) \o SubSeq(q, i + 1, Len(q))

\* what the mail API call of a waiting sendEmail can come to
EmailOutcomes == {"ok", "rejected", "network error"}

\* a handler that takes the commit back when the mail was not sent
EmailDoneResultRollback(i, outcome) ==
    [Out(SentResp(outcome = "ok")) EXCEPT
        !.inflight = RemoveAt(inflight, i),
        !.db = IF outcome = "ok" THEN db
               ELSE updateOrderStatus(db, inflight[i].orderId, "PENDING",
                                      NoKey, now)]

\* the fetch of the i-th waiting sendEmail settles; sendEmail returns and the
\* handler answers { success: true, emailSent }
EmailDoneResult(i, outcome) ==
    [Out(SentResp(outcome = "ok")) EXCEPT !.inflight = RemoveAt(inflight, i)]

EmailDone(i, outcome) ==
    /\ i \in 1..Len(inflight)
    /\ Apply(EmailDoneResult(i, outcome))

\* (the approval has a promise rejected on an unreadable file only, so its
\* rejection is drawn there only; the behaviours followed are those with at
\* most MaxInflight calls of sendEmail waiting at a time)
Next ==
    \/ Tick
    \/ \E body \in CreateBodies, n \in RandomInts : CreateOrder(body, n)
    \/ \E content \in WebhookContents, amount \in WebhookAmounts,
          later \in SecondReads(now) :
           /\ Webhook(content, amount, later)
           /\ Len(inflight') <= MaxInflight
    \/ \E pass \in AdminPasses, orderId \in AdminIds,
          later \in SecondReads(now),
          rejection \in (IF corrupt THEN Rejections ELSE {"warn"}) :
           /\ Approve(pass, orderId, later, rejection)
           /\ Len(inflight') <= MaxInflight
    \/ \E pass \in AdminPasses : ListOrders(pass)
    \/ \E pass \in AdminPasses, orderId \in AdminIds : DeleteOrder(pass, orderId)
    \/ \E i \in 1..MaxInflight, outcome \in EmailOutcomes : EmailDone(i, outcome)

Spec == Init /\ [][Next]_vars

TypeOK ==
    /\ privateKey \in BOOLEAN
    /\ apiKey \in BOOLEAN
    /\ running \in BOOLEAN
    /\ now.ms \in {0, LastMilli}
    /\ fileExists \in BOOLEAN
    /\ corrupt \in BOOLEAN
    /\ corrupt => fileExists
    /\ Len(inflight) <= MaxInflight
    /\ ~fileExists => db = <<>>
    /\ \A i, j \in 1..Len(db) : db[i].id = db[j].id => i = j

(***************************************************************************)
(* Properties.                                                             *)
(***************************************************************************)
Stored(id) == fileExists /\ HasOwn(db, id)
Completed(o) == o.status = "COMPLETED"

\* the immutable fields, the status and the key of two records agree
SameOrder(a, b) ==
    /\ a.machineId = b.machineId
    /\ a.email = b.email
    /\ a.type = b.type
    /\ a.amount = b.amount
    /\ a.status = b.status
    /\ a.licenseKey = b.licenseKey

\* C1: for every order id at most one licenseKey value is ever generated
\* and persisted: whenever the record under an id is COMPLETED, its key is
\* the first key that was generated for that id.
C1_OneKeyPerId ==
    \A i \in 1..Len(db) :
        (db[i].id \in OrderIdSet /\ Completed(db[i]))
            => db[i].licenseKey = firstKey[db[i].id]

\* C2 (as stated): once two or more fulfilment triggers have targeted the
\* order created last under an id, exactly one generation, one commit to
\* COMPLETED and one Notifier invocation have happened for it.
C2_ExactlyOnce ==
    \A id \in OrderIdSet :
        stats[id].trig >= 2
            => /\ stats[id].gen = 1
               /\ stats[id].commit = 1
               /\ stats[id].notif = 1

\* C2 (amended): for the order created last under an id there is never more
\* than one generation, one commit and one Notifier invocation; once two or
\* more triggers have targeted it there is exactly one of each when a signing
\* key is configured, and none when it is not.
C2_ExactlyOnceWhenSigning ==
    \A id \in OrderIdSet :
        /\ stats[id].gen <= 1
        /\ stats[id].commit <= 1
        /\ stats[id].notif <= 1
        /\ stats[id].trig >= 2
               => LET k == IF privateKey THEN 1 ELSE 0
                  IN  /\ stats[id].gen = k
                      /\ stats[id].commit = k
                      /\ stats[id].notif = k

\* two triggers have reached an order whose one notification is still
\* outstanding
C2_Witness ==
    \E id \in OrderIdSet :
        /\ stats[id].trig >= 2
        /\ stats[id].gen = 1
        /\ Stored(id)
        /\ \E i \in 1..Len(inflight) :
               /\ inflight[i].orderId = id
               /\ inflight[i].licenseKey = Own(db, id).licenseKey

\* C3: a trigger on a COMPLETED order reports success and returns the
\* order's licenseKey, the same through the webhook and through the
\* approval, and invokes neither the Generator nor the Notifier.
C3_CompletedTriggerSucceeds ==
    \A i \in 1..Len(db) :
        Completed(db[i]) =>
            \A later \in SecondReads(now), rejection \in Rejections :
                LET id == db[i].id
                    w == WebhookResult(Str(id), db[i].amount, later)
                    a == ApproveResult(ADMIN_PASS, id, later, rejection)
                IN  /\ w.resp.success = "true"
                    /\ a.resp.success = "true"
                    /\ w.resp = a.resp
                    /\ w.resp.licenseKey = db[i].licenseKey
                    /\ a.resp.licenseKey = db[i].licenseKey
                    /\ w.stats[id].gen = stats[id].gen
                    /\ a.stats[id].gen = stats[id].gen
                    /\ w.stats[id].notif = stats[id].notif
                    /\ a.stats[id].notif = stats[id].notif
                    /\ w.inflight = inflight
                    /\ a.inflight = inflight

\* C4: every stored order has a licenseKey if and only if its status is
\* COMPLETED.
C4_KeyIffCompleted ==
    \A i \in 1..Len(db) : (db[i].licenseKey # NoKey) <=> Completed(db[i])

\* a completed order beside a pending one that stands where a completed one
\* stood before
C4_Witness ==
    \E i, j \in 1..Len(db) :
        /\ Completed(db[i])
        /\ db[i].licenseKey # NoKey
        /\ db[j].status = "PENDING"
        /\ firstKey[db[j].id] # NoKey

\* C5: once the record under an id is COMPLETED, a step either deletes it or
\* leaves it COMPLETED with the same licenseKey.
C5_CompletedIsTerminal ==
    [][\A i \in 1..Len(db) :
           Completed(db[i]) =>
               \/ ~HasOwn(db', db[i].id)
               \/ /\ Completed(Own(db', db[i].id))
                  /\ Own(db', db[i].id).licenseKey = db[i].licenseKey]_vars

\* C6: create-order never assigns an id that is in the store, and leaves
\* every order that was stored before it as it was.
C6_CreateKeepsOrders ==
    [][\A body \in CreateBodies, n \in RandomInts :
           CreateOrder(body, n) =>
               \A i \in 1..Len(db) :
                   /\ CreateOrderResult(body, n).resp.orderId # db[i].id
                   /\ HasOwn(db', db[i].id)
                   /\ SameOrder(Own(db', db[i].id), db[i])]_vars

\* C7: a webhook whose amount is not a number at least the amount of the
\* order it names leaves the store as it is and invokes neither the
\* Generator nor the Notifier.
C7_OnlySufficientAmountFulfils ==
    [][\A content \in WebhookContents, amount \in WebhookAmounts,
          later \in SecondReads(now) :
           (/\ Webhook(content, amount, later)
            /\ content.t = "str"
            /\ HasMatch(content.s)
            /\ Stored(FirstMatch(content.s))
            /\ ~AmountSatisfies(amount,
                                Own(db, FirstMatch(content.s)).amount))
               => /\ db' = db
                  /\ inflight' = inflight
                  /\ stats' = stats]_vars

\* every stored record is in the list an administrator is sent, key included
ListShowsAll ==
    LET l == ListOrdersResult(ADMIN_PASS).resp.list
    IN  \A i \in 1..Len(db) : \E j \in 1..Len(l) : l[j] = db[i]

\* the request of this step invoked the Notifier for the order under id
NotifierInvoked(id) ==
    /\ stats[id].notif = 0
    /\ stats'[id].notif = 1

\* C8: a Notifier failure leaves the commit in place.  (a) The step in which
\* the mail API fails changes no order and answers success with emailSent
\* false, and (b) so does a fulfilment whose sendEmail fails at once; (c) at
\* the Notifier's invocation the order is stored COMPLETED with the key
\* handed to it; (d) a COMPLETED order changes only by a create-order or a
\* delete on its id; (e) the list shows every stored order with its key.
C8_NotifierFailureKeepsCommit ==
    /\ []ListShowsAll
    /\ [][/\ Len(inflight') < Len(inflight) =>
                 \A i \in 1..Len(inflight),
                    outcome \in EmailOutcomes \ {"ok"} :
                     EmailDone(i, outcome) =>
                         /\ EmailDoneResult(i, outcome).resp = SentResp(FALSE)
                         /\ db' = db
                         /\ fileExists' = fileExists
          /\ \A id \in OrderIdSet :
                 NotifierInvoked(id) =>
                     /\ HasOwn(db', id)
                     /\ Completed(Own(db', id))
                     /\ Own(db', id).licenseKey # NoKey
                     /\ apiKey =>
                            /\ inflight' # <<>>
                            /\ inflight'[Len(inflight')].orderId = id
                            /\ inflight'[Len(inflight')].licenseKey
                                   = Own(db', id).licenseKey
                     /\ ~apiKey =>
                            /\ \A content \in WebhookContents,
                                  amount \in WebhookAmounts,
                                  later \in SecondReads(now) :
                                   Webhook(content, amount, later) =>
                                       WebhookResult(content, amount,
                                                     later).resp
                                           = SentResp(FALSE)
                            /\ \A pass \in AdminPasses, orderId \in AdminIds,
                                  later \in SecondReads(now),
                                  rejection \in Rejections :
                                   Approve(pass, orderId, later, rejection) =>
                                       ApproveResult(pass, orderId, later,
                                                     rejection).resp
                                           = SentResp(FALSE)
          /\ \A i \in 1..Len(db) :
                 Completed(db[i]) =>
                     \/ HasOwn(db', db[i].id) /\ Own(db', db[i].id) = db[i]
                     \/ \E body \in CreateBodies, n \in RandomInts :
                            CreateOrder(body, n) /\ MkOrderId(n) = db[i].id
                     \/ \E pass \in AdminPasses :
                            DeleteOrder(pass, db[i].id)]_vars

\* no mail API key: the Notifier was invoked for an order and failed, and the
\* order is stored COMPLETED with a key
C8_Witness ==
    /\ ~apiKey
    /\ \E id \in OrderIdSet :
           /\ stats[id].notif = 1
           /\ Stored(id)
           /\ Completed(Own(db, id))
           /\ Own(db, id).licenseKey # NoKey

\* a trigger that passes the webhook's amount test
PassesAmountTest(amount, order) ==
    ~NumLess(ParseFloat(amount), ParseFloat(order.amount))

\* C9: with no signing key, a fulfilment attempt fails for that request
\* only: it is answered 500 and the process goes on, the order stays PENDING
\* without a key, the Notifier is not invoked, and create-order, list and
\* delete still succeed.
C9_NoSigningKey ==
    ~privateKey =>
        /\ inflight = <<>>
        /\ \A id \in OrderIdSet : stats[id].gen = 0 /\ stats[id].notif = 0
        /\ \A i \in 1..Len(db) :
               /\ db[i].status = "PENDING"
               /\ db[i].licenseKey = NoKey
               /\ \A later \in SecondReads(now), rejection \in Rejections :
                      LET a == ApproveResult(ADMIN_PASS, db[i].id, later,
                                             rejection)
                      IN  /\ a.resp.http = 500
                          /\ a.running
                          /\ a.db = db
                          /\ a.inflight = inflight
               /\ \A amount \in WebhookAmounts, later \in SecondReads(now) :
                      LET w == WebhookResult(Str(db[i].id), amount, later)
                      IN  /\ PassesAmountTest(amount, db[i])
                              => w.resp.http = 500
                          /\ w.running
                          /\ w.db = db
                          /\ w.inflight = inflight
               /\ DeleteOrderResult(ADMIN_PASS, db[i].id).resp.success = "true"
        /\ ListOrdersResult(ADMIN_PASS).resp.http = 200
        /\ ListShowsAll
        /\ \A body \in CreateBodies, n \in RandomInts :
               (Truthy(body.machineId) /\ Truthy(body.email)
                /\ Truthy(body.type) /\ Truthy(body.amount))
                   => LET c == CreateOrderResult(body, n)
                      IN  /\ c.resp.success = "true"
                          /\ HasOwn(c.db, MkOrderId(n))

\* no signing key, and a fulfilment was attempted on an order that is still
\* stored, beside an order created later
C9_Witness ==
    /\ ~privateKey
    /\ \E i, j \in 1..Len(db) :
           /\ i < j
           /\ stats[db[i].id].trig >= 1
           /\ db[i].status = "PENDING"

\* the approval and the webhook do not find an order under id
NotFound(id) ==
    \A later \in SecondReads(now), rejection \in Rejections :
        /\ ApproveResult(ADMIN_PASS, id, later, rejection).resp
               = MsgResp(404, "false", "Order not found")
        /\ WebhookResult(Str(id), Num(200), later).resp
               = MsgResp(200, "false", "Order not found")

\* C10: a delete of a stored id reports success and the id is not found
\* afterwards; a delete of an id that is not stored reports not found and
\* leaves the store as it is; either way every other order is unchanged.
C10_DeleteFrame ==
    /\ [](\A orderId \in AdminIds :
              LET r == DeleteOrderResult(ADMIN_PASS, orderId)
              IN  /\ \A i \in 1..Len(db) :
                         db[i].id # orderId
                             => /\ HasOwn(r.db, db[i].id)
                                /\ Own(r.db, db[i].id) = db[i]
                  /\ IF Stored(orderId)
                     THEN /\ r.resp.success = "true"
                          /\ ~HasOwn(r.db, orderId)
                     ELSE /\ r.resp.http = 404
                          /\ r.resp.success = "false"
                          /\ r.db = db)
    /\ [][\A orderId \in AdminIds :
              (DeleteOrder(ADMIN_PASS, orderId) /\ Stored(orderId))
                  => NotFound(orderId)']_vars

(***************************************************************************)
(* Fulfilment, exercised with well-formed requests only: one valid body,   *)
(* contents that name an order, amounts that are numbers, the right admin  *)
(* password.  The orders file stays readable, so the approval has no       *)
(* promise rejected and its rejection argument is of no effect.            *)
(***************************************************************************)
FulfilBody == MkBody(Str(LongMachine), Str(Buyer), Str(<<"M">>), Num(200))
FulfilContents ==
    {Str(id) : id \in OrderIdSet}
    \cup {Str(<<"C", "K", " ">> \o MkOrderId(9999) \o <<"7", " ">>
               \o MkOrderId(1000))}
FulfilAmounts == {Num(200), Str(<<"1", "9", "9", ".", "9", "9">>)}
FulfilIds == OrderIdSet \cup {ProtoKey}

NextFulfil ==
    \/ Tick
    \/ \E n \in RandomInts : CreateOrder(FulfilBody, n)
    \/ \E content \in FulfilContents, amount \in FulfilAmounts,
          later \in SecondReads(now) :
           /\ Webhook(content, amount, later)
           /\ Len(inflight') <= MaxInflight
    \/ \E orderId \in FulfilIds, later \in SecondReads(now) :
           /\ Approve(ADMIN_PASS, orderId, later, "warn")
           /\ Len(inflight') <= MaxInflight
    \/ ListOrders(ADMIN_PASS)
    \/ \E orderId \in FulfilIds : DeleteOrder(ADMIN_PASS, orderId)
    \/ \E i \in 1..MaxInflight, outcome \in EmailOutcomes : EmailDone(i, outcome)

SpecFulfil == Init /\ [][NextFulfil]_vars

\* the outcome r of a request invoked the Notifier for the order under id
Notifies(r, id) == r.stats[id].notif # stats[id].notif

\* C17: whenever a webhook or an approval invokes the Notifier for an order,
\* the store it leaves holds that order COMPLETED with a licenseKey, and the
\* mail it hands to the mail API carries that key, that id and, as recipient,
\* the email of the stored order.
C17_NotifyAfterCommit ==
    \A id \in OrderIdSet :
        LET Committed(r) ==
                Notifies(r, id) =>
                    /\ r.fileExists
                    /\ HasOwn(r.db, id)
                    /\ Completed(Own(r.db, id))
                    /\ Own(r.db, id).licenseKey # NoKey
                    /\ r.stats[id].commit # stats[id].commit
                    /\ apiKey =>
                           /\ Len(r.inflight) = Len(inflight) + 1
                           /\ LET mail == r.inflight[Len(r.inflight)]
                              IN  /\ mail.orderId = id
                                  /\ mail.licenseKey = Own(r.db, id).licenseKey
                                  /\ mail.to = Own(r.db, id).email
                    /\ ~apiKey => r.resp = SentResp(FALSE)
        IN  /\ \A content \in FulfilContents, amount \in FulfilAmounts,
                  later \in SecondReads(now) :
                   Committed(WebhookResult(content, amount, later))
            /\ \A orderId \in FulfilIds, later \in SecondReads(now),
                  rejection \in Rejections :
                   Committed(ApproveResult(ADMIN_PASS, orderId, later,
                                           rejection))

\* a mail of an approval waits for the mail API, and the store holds its
\* order COMPLETED with the key and the recipient of the mail
C17_Witness ==
    \E i \in 1..Len(inflight) :
        /\ inflight[i].op = "approve"
        /\ Stored(inflight[i].orderId)
        /\ Completed(Own(db, inflight[i].orderId))
        /\ Own(db, inflight[i].orderId).licenseKey = inflight[i].licenseKey
        /\ Own(db, inflight[i].orderId).email = inflight[i].to

(***************************************************************************)
(* The notifications themselves: orders under both ids, fulfilled by the   *)
(* webhook and by the approval, with up to MaxWaiting calls of sendEmail   *)
(* waiting at a time.                                                      *)
(***************************************************************************)
NextNotify ==
    \/ \E n \in RandomInts : CreateOrder(FulfilBody, n)
    \/ \E id \in OrderIdSet, later \in SecondReads(now) :
           /\ Webhook(Str(id), Num(200), later)
           /\ Len(inflight') <= MaxWaiting
    \/ \E id \in OrderIdSet, later \in SecondReads(now) :
           /\ Approve(ADMIN_PASS, id, later, "warn")
           /\ Len(inflight') <= MaxWaiting
    \/ ListOrders(ADMIN_PASS)
    \/ \E id \in OrderIdSet : DeleteOrder(ADMIN_PASS, id)
    \/ \E i \in 1..MaxWaiting, outcome \in EmailOutcomes : EmailDone(i, outcome)

SpecNotify == Init /\ [][NextNotify]_vars

\* a handler whose outcome is r can take its step now
Taken(r) == \E x \in {r} : ENABLED Apply(x)

\* the handler that produced r ran to its end: it answered, or it committed a
\* fulfilment and waits for the answer of the mail API to its own mail only,
\* behind the calls that waited before
Completes(r) ==
    \/ r.resp # NoResp /\ r.inflight = inflight
    \/ /\ r.resp = NoResp
       /\ Len(r.inflight) = Len(inflight) + 1
       /\ SubSeq(r.inflight, 1, Len(inflight)) = inflight
       /\ HasOwn(r.db, r.inflight[Len(r.inflight)].orderId)
       /\ Completed(Own(r.db, r.inflight[Len(r.inflight)].orderId))

\* C18: while notifications are outstanding, every request, on the order of
\* one of them or on another, is taken up at once (its handler is enabled)
\* and runs to its end without waiting for any of them: it answers, or it
\* fulfils its order and starts a notification of its own beside those that
\* wait; and each outstanding notification can settle, with any outcome,
\* while the others go on waiting.
C18_NoLockAcrossNotifier ==
    inflight # <<>> =>
        /\ \A n \in RandomInts :
               /\ Taken(CreateOrderResult(FulfilBody, n))
               /\ CreateOrderResult(FulfilBody, n).resp.success = "true"
               /\ CreateOrderResult(FulfilBody, n).inflight = inflight
        /\ \A content \in FulfilContents, amount \in FulfilAmounts,
              later \in SecondReads(now) :
               /\ Taken(WebhookResult(content, amount, later))
               /\ Completes(WebhookResult(content, amount, later))
        /\ \A orderId \in FulfilIds :
               /\ \A later \in SecondReads(now), rejection \in Rejections :
                      /\ Taken(ApproveResult(ADMIN_PASS, orderId, later,
                                           rejection))
                      /\ Completes(ApproveResult(ADMIN_PASS, orderId, later,
                                                 rejection))
               /\ Taken(DeleteOrderResult(ADMIN_PASS, orderId))
               /\ DeleteOrderResult(ADMIN_PASS, orderId).resp # NoResp
               /\ DeleteOrderResult(ADMIN_PASS, orderId).inflight = inflight
               /\ LookupTruthy(db, orderId)
                      => DeleteOrderResult(ADMIN_PASS, orderId).resp.success
                             = "true"
        /\ Taken(ListOrdersResult(ADMIN_PASS))
        /\ ListOrdersResult(ADMIN_PASS).resp.http = 200
        /\ ListOrdersResult(ADMIN_PASS).inflight = inflight
        /\ \A i \in 1..Len(inflight), outcome \in EmailOutcomes :
               /\ Taken(EmailDoneResult(i, outcome))
               /\ EmailDoneResult(i, outcome).resp # NoResp
               /\ EmailDoneResult(i, outcome).inflight = RemoveAt(inflight, i)
               /\ EmailDoneResult(i, outcome).db = db

\* the notifications of two orders are outstanding together, one started by
\* the webhook and one by the approval while the other waited, and both
\* orders are stored COMPLETED with the keys of their mails
C18_Witness ==
    \E i, j \in 1..Len(inflight) :
        /\ i < j
        /\ inflight[i].orderId # inflight[j].orderId
        /\ inflight[i].op # inflight[j].op
        /\ \A k \in {i, j} :
               /\ Stored(inflight[k].orderId)
               /\ Completed(Own(db, inflight[k].orderId))
               /\ Own(db, inflight[k].orderId).licenseKey
                      = inflight[k].licenseKey

\* C19: a payment report whose amount is below the amount of the order it
\* names is answered as a failure for insufficient amount, whether the order
\* is PENDING or COMPLETED.
C19_LowAmountInsufficient ==
    \A i \in 1..Len(db), amount \in WebhookAmounts,
       later \in SecondReads(now) :
        NumLess(ParseFloat(amount), ParseFloat(db[i].amount))
            => WebhookResult(Str(db[i].id), amount, later).resp
                   = MsgResp(200, "false", "Insufficient amount")

\* the store that the outcome r leaves differs from the present one at most
\* in the status, the licenseKey and the updatedAt of the order under id
OnlyFulfils(r, id) ==
    /\ r.fileExists = fileExists
    /\ Len(r.db) = Len(db)
    /\ \A i \in 1..Len(db) :
           /\ r.db[i].id = db[i].id
           /\ r.db[i].machineId = db[i].machineId
           /\ r.db[i].email = db[i].email
           /\ r.db[i].type = db[i].type
           /\ r.db[i].amount = db[i].amount
           /\ r.db[i].createdAt = db[i].createdAt
           /\ db[i].id # id => r.db[i] = db[i]

\* C20: a webhook or an approval changes nothing in the store but the
\* status, the licenseKey and the updatedAt of the order it targets.
C20_FulfilFrame ==
    /\ \A content \in FulfilContents, amount \in FulfilAmounts,
          later \in SecondReads(now) :
           OnlyFulfils(WebhookResult(content, amount, later),
                       FirstMatch(content.s))
    /\ \A orderId \in FulfilIds, later \in SecondReads(now),
          rejection \in Rejections :
           OnlyFulfils(ApproveResult(ADMIN_PASS, orderId, later, rejection),
                       orderId)

\* an order fulfilled after the time of its creation stands beside a PENDING
\* one
C20_Witness ==
    \E i, j \in 1..Len(db) :
        /\ i # j
        /\ Completed(db[i])
        /\ db[i].updatedAt # NoDate
        /\ db[i].updatedAt # db[i].createdAt
        /\ db[j].status = "PENDING"

(***************************************************************************)
(* The generator and the validation of create-order, exercised on every    *)
(* day of a common year and of a leap year: the server starts in the last  *)
(* millisecond of any of these days with a signing key and without a mail  *)
(* API key, orders of every kind are created under one id and approved     *)
(* (on a readable file, where the rejection argument is of no effect).     *)
(***************************************************************************)
GenYears == {2023, 2024}
GenDates ==
    {MkTime(dt, LastMilli) :
        dt \in {x \in {MkDate(y, m, d) :
                            y \in GenYears, m \in 1..12, d \in 1..31} :
                    x.d <= DaysIn(x.y, x.m)}}

GenId == MkOrderId(1000)

\* bodies of POST /create-order: the three types with a long and a short
\* machineId, an unknown type, amounts that are negative, zero, not a number,
\* and missing or empty fields
GenBodies ==
    { MkBody(Str(LongMachine), Str(Buyer), Str(<<"M">>), Num(200)),
      MkBody(Str(LongMachine), Str(Buyer), Str(<<"Y">>), Num(200)),
      MkBody(Str(LongMachine), Str(Buyer), Str(<<"P">>),
             Str(<<"2", "0", "0">>)),
      MkBody(Str(ShortMachine), Str(Buyer), Str(<<"Y">>), Num(200)),
      MkBody(Str(SharpMachine), Str(Buyer), Str(<<"Y">>), Num(200)),
      MkBody(Str(LongMachine), Str(Buyer), Str(<<"X">>), Num(200)),
      MkBody(Str(LongMachine), Str(Buyer), Str(<<"M">>), Num(0 - 5)),
      MkBody(Str(LongMachine), Str(Buyer), Str(<<"M">>),
             Str(<<"a", "b", "c">>)),
      MkBody(Str(LongMachine), Str(Buyer), Str(<<"M">>), Num(0)),
      MkBody(Str(LongMachine), Str(<<>>), Str(<<"M">>), Num(200)),
      MkBody(Undef, Str(Buyer), Str(<<"M">>), Num(200)) }

InitGen ==
    /\ privateKey = TRUE
    /\ apiKey = FALSE
    /\ running = TRUE
    /\ now \in GenDates
    /\ fileExists \in BOOLEAN
    /\ corrupt = FALSE
    /\ db = <<>>
    /\ inflight = <<>>
    /\ firstKey = [id \in OrderIdSet |-> NoKey]
    /\ stats = [id \in OrderIdSet |-> ZeroStats]

NextGen ==
    \/ \E body \in GenBodies : CreateOrder(body, 1000)
    \/ \E later \in SecondReads(now) :
           /\ Approve(ADMIN_PASS, GenId, later, "warn")
           /\ Len(inflight') <= MaxInflight

SpecGen == InitGen /\ [][NextGen]_vars

\* the validation the interface asks of create-order: the four fields present
\* and non-empty, the amount a number above zero, the type one of M, Y, P
ValidBody(body) ==
    /\ Truthy(body.machineId)
    /\ Truthy(body.email)
    /\ Truthy(body.type)
    /\ Truthy(body.amount)
    /\ ~ParseFloat(body.amount).nan
    /\ Sgn(ParseFloat(body.amount)) > 0
    /\ \E t \in {"M", "Y", "P"} : IsStr(body.type, <<t>>)

\* C11: create-order stores an order only for a valid body: a request whose
\* body is not valid is answered with a validation error and leaves the store
\* unchanged, and every order in the store after a step has valid fields.
C11_CreateValidates ==
    [][/\ \A body \in GenBodies :
              (CreateOrder(body, 1000) /\ ~ValidBody(body)) =>
                  LET r == CreateOrderResult(body, 1000)
                  IN  /\ r.resp.http = 400
                      /\ r.resp.error # <<>>
                      /\ db' = db
                      /\ fileExists' = fileExists
       /\ \A i \in 1..Len(db') : ValidBody(db'[i])]_vars

\* C12: an order whose machineId has fewer than 8 characters is never
\* fulfilled: generation fails for it, it has no licenseKey and it stays
\* PENDING.
C12_ShortMachineIdFails ==
    \A i \in 1..Len(db) :
        (db[i].machineId.t = "str" /\ Len(db[i].machineId.s) < 8)
            => /\ ~generateLicense(privateKey, db[i].machineId, db[i].type,
                                   now).ok
               /\ db[i].status = "PENDING"
               /\ db[i].licenseKey = NoKey

\* type-machineHash- of the key of a stored order
KeyPrefix(o) ==
    ToStr(o.type) \o <<"-">> \o ToUpperCase(Substring0(o.machineId.s, 8))
        \o <<"-">>

\* YYYYMMDD written from the three numbers as they stand
Ymd(y, m, d) == NatToStr(y) \o PadStart2(NatToStr(m)) \o PadStart2(NatToStr(d))

\* a stored order of the given type that was fulfilled
Fulfilled(o, type) ==
    /\ Completed(o)
    /\ IsStr(o.type, <<type>>)
    /\ o.machineId.t = "str"

\* the step fulfils the i-th order, of the given type: its key was generated
\* in this step, from the clock as the step found it (now)
Fulfils(i, type) ==
    /\ i <= Len(db)
    /\ i <= Len(db')
    /\ ~Completed(db[i])
    /\ Fulfilled(db'[i], type)

\* C13 (as stated): the payload of a yearly key generated on the day now is
\* Y-<machineHash>-<expiry> with the expiry the year after now's, and now's
\* month and day.
C13_YearlyExpiry ==
    [][\A i \in 1..Len(db) :
           Fulfils(i, "Y") =>
               db'[i].licenseKey.payload
                   = KeyPrefix(db[i]) \o Ymd(now.y + 1, now.m, now.d)]_vars

\* C13 (amended): as stated on every day but February 29, and on February
\* 29 the expiry is March 1 of the year after.
C13_YearlyExpiryButLeapDay ==
    [][\A i \in 1..Len(db) :
           Fulfils(i, "Y") =>
               db'[i].licenseKey.payload
                   = KeyPrefix(db[i])
                         \o (IF now.m = 2 /\ now.d = 29
                             THEN Ymd(now.y + 1, 3, 1)
                             ELSE Ymd(now.y + 1, now.m, now.d))]_vars

\* a yearly order that was fulfilled on February 29: its record was written
\* in the last millisecond of that day, and its key was generated no later
C13_Witness ==
    \E i \in 1..Len(db) :
        /\ Fulfilled(db[i], "Y")
        /\ db[i].updatedAt.m = 2
        /\ db[i].updatedAt.d = 29
        /\ db[i].updatedAt.ms = LastMilli
        /\ db[i].licenseKey # NoKey

\* C14: the expiry of a monthly key generated on the day now is a day of the
\* calendar month after now's (January of the next year after December), as
\* YYYYMMDD; the expiry of a perpetual key is FOREVER.
C14_MonthlyExpiry ==
    [][\A i \in 1..Len(db) :
           /\ Fulfils(i, "M") =>
                  LET y == IF now.m = 12 THEN now.y + 1 ELSE now.y
                      m == IF now.m = 12 THEN 1 ELSE now.m + 1
                  IN  \E d \in 1..DaysIn(y, m) :
                          db'[i].licenseKey.payload
                              = KeyPrefix(db[i]) \o Ymd(y, m, d)
           /\ Fulfils(i, "P") =>
                  db'[i].licenseKey.payload
                      = KeyPrefix(db[i])
                            \o <<"F", "O", "R", "E", "V", "E", "R">>]_vars

(***************************************************************************)
(* The payment matcher, exercised with contents that hold two candidate    *)
(* codes or none: orders are created under both ids, a millisecond apart   *)
(* (across a midnight) or within the same one, and only the webhook        *)
(* fulfils them.                                                           *)
(***************************************************************************)
\* TT9999 (followed by one more digit) before TT1000
TwoCodes ==
    <<"C", "K", " ">> \o MkOrderId(9999) \o <<"7", " ">> \o MkOrderId(1000)
\* a broken candidate, then TT1000 before TT9999
TwoCodesAfterBroken ==
    <<"T", "T", "1", "2", " ">> \o MkOrderId(1000) \o <<" ", "x", " ">>
        \o MkOrderId(9999)
NoCode == <<"T", "T", "1", "2", " ", "n", "o", " ", "c", "o", "d", "e">>

MatchContents == {Str(TwoCodes), Str(TwoCodesAfterBroken), Str(NoCode),
                  Str(<<>>)}
\* 200, 199.99, and 200 written after a tab with an exponent
MatchAmounts == {Num(200), Str(<<"1", "9", "9", ".", "9", "9">>),
                 Str(<<"\t", "2", "e", "2">>)}

NextMatch ==
    \/ Tick
    \/ \E n \in RandomInts :
           CreateOrder(MkBody(Str(LongMachine), Str(Buyer), Str(<<"M">>),
                              Num(200)), n)
    \/ \E content \in MatchContents, amount \in MatchAmounts,
          later \in SecondReads(now) :
           /\ Webhook(content, amount, later)
           /\ Len(inflight') <= MaxInflight
    \/ ListOrders(ADMIN_PASS)
    \/ \E i \in 1..MaxInflight, outcome \in EmailOutcomes : EmailDone(i, outcome)

SpecMatch == Init /\ [][NextMatch]_vars

\* the places of the content where TT and four digits stand
Candidates(s) == {i \in 1..Len(s) : MatchAt(s, i)}

\* C15: the webhook acts on the first candidate code of the content: it does
\* what it does for a content that is that code alone, it changes no order
\* and counts nothing under another id, and it answers not found when no
\* order is stored under that code, whatever the second code names; for a
\* content without a candidate it answers that no code was found and leaves
\* the store as it is.
C15_FirstCodeDecides ==
    \A content \in MatchContents, amount \in MatchAmounts,
       later \in SecondReads(now) :
        LET s == content.s
            r == WebhookResult(content, amount, later)
        IN  IF Candidates(s) = {}
            THEN /\ r.resp = MsgResp(200, "false", "No order code found")
                 /\ r.db = db
                 /\ r.fileExists = fileExists
                 /\ r.inflight = inflight
            ELSE LET p == CHOOSE i \in Candidates(s) :
                              \A j \in Candidates(s) : i <= j
                     id == SubSeq(s, p, p + 5)
                 IN  /\ r = WebhookResult(Str(id), amount, later)
                     /\ Len(r.db) = Len(db)
                     /\ \A i \in 1..Len(db) : db[i].id # id => r.db[i] = db[i]
                     /\ \A k \in OrderIdSet \ {id} : r.stats[k] = stats[k]
                     /\ \A i \in 1..Len(r.inflight) :
                            i > Len(inflight) => r.inflight[i].orderId = id
                     /\ ~Stored(id) =>
                            /\ r.resp = MsgResp(200, "false", "Order not found")
                            /\ r.db = db

\* the order named first in a content with two codes was fulfilled, and the
\* order named second in it is stored and still PENDING
C15_Witness ==
    /\ stats[MkOrderId(9999)].gen = 1
    /\ Stored(MkOrderId(9999))
    /\ Completed(Own(db, MkOrderId(9999)))
    /\ Stored(MkOrderId(1000))
    /\ Own(db, MkOrderId(1000)).status = "PENDING"
    /\ stats[MkOrderId(1000)].trig = 0

(***************************************************************************)
(* The server beside an environment that can leave the orders file         *)
(* unreadable (fs.writeFileSync replaces the file in place, so a write cut *)
(* short leaves a part of the JSON text) and can restart the process.      *)
(***************************************************************************)
\* the orders file comes to hold text that JSON.parse rejects
CorruptFile ==
    /\ fileExists
    /\ ~corrupt
    /\ corrupt' = TRUE
    /\ UNCHANGED <<privateKey, apiKey, running, now, fileExists, db,
                   inflight, firstKey, stats>>

\* the process is started again, after an unhandled rejection ended it or
\* after the platform stopped it: the handlers that waited in sendEmail are
\* gone, the file is as it was (line 20 finds DB_FILE where it made it)
Restart ==
    /\ ~running \/ inflight # <<>>
    /\ running' = TRUE
    /\ inflight' = <<>>
    /\ UNCHANGED <<privateKey, apiKey, now, fileExists, corrupt, db,
                   firstKey, stats>>

NextCorrupt ==
    \/ Next
    \/ CorruptFile
    \/ Restart

SpecCorrupt == Init /\ [][NextCorrupt]_vars

\* the response reports a failure to its sender
Failure(resp) ==
    /\ resp.success # "true"
    /\ resp.http # 200

\* C16: while the orders file is unreadable, every operation on the store is
\* answered as a failure and leaves the file unreadable with nothing
\* written over it; create-order in particular does not succeed and does not
\* put a store that holds only the new order in the place of the old data.
C16_CorruptStoreFailsOperation ==
    /\ [](corrupt =>
              /\ \A id \in OrderIdSet, later \in SecondReads(now) :
                     Failure(WebhookResult(Str(id), Num(200), later).resp)
              /\ \A id \in AdminIds :
                     /\ \A later \in SecondReads(now),
                           rejection \in Rejections :
                            Failure(ApproveResult(ADMIN_PASS, id, later,
                                                  rejection).resp)
                     /\ Failure(DeleteOrderResult(ADMIN_PASS, id).resp)
              /\ Failure(ListOrdersResult(ADMIN_PASS).resp))
    /\ [][corrupt =>
              /\ corrupt'
              /\ db' = db
              /\ \A body \in CreateBodies, n \in RandomInts :
                     CreateOrder(body, n)
                         => Failure(CreateOrderResult(body, n).resp)]_vars

(***************************************************************************)
(* The ids of create-order and the lookup of the webhook.                  *)
(***************************************************************************)
\* values of Math.floor(1000 + Math.random() * 9000) across its range
IdDraws == {1000, 1001, 1009, 1010, 1099, 1100, 1999, 2000, 5555, 9000,
            9990, 9999}

\* TT and exactly four decimal digits
IsOrderId(s) ==
    /\ Len(s) = 6
    /\ s[1] = "T"
    /\ s[2] = "T"
    /\ \A j \in 3..6 : s[j] \in DigitSet

\* the content holds id, and no TT with four digits stands before it
NamesFirst(s, id) ==
    \E p \in 1..Len(s) :
        /\ p + 5 <= Len(s)
        /\ SubSeq(s, p, p + 5) = id
        /\ \A q \in 1..(p - 1) : ~MatchAt(s, q)

\* C21: every id that create-order assigns is TT and exactly four digits,
\* and the order is stored under it; a webhook whose content names such an id
\* first deals with the order stored under that id: it answers that the
\* order is already completed, or that the amount is insufficient, or it
\* fulfils that order with a key made from its machineId and type, and it
\* changes no other order; when no order is stored under the id (never
\* created, or deleted) it answers not found.
C21_IdRoundTrip ==
    /\ \A n \in IdDraws : IsOrderId(MkOrderId(n))
    /\ \A n \in RandomInts :
           LET c == CreateOrderResult(FulfilBody, n)
           IN  /\ IsOrderId(c.resp.orderId)
               /\ HasOwn(c.db, c.resp.orderId)
               /\ Own(c.db, c.resp.orderId).machineId = FulfilBody.machineId
    /\ \A i \in 1..Len(db) : IsOrderId(db[i].id)
    /\ \A content \in FulfilContents \cup MatchContents,
          amount \in FulfilAmounts, id \in OrderIdSet,
          later \in SecondReads(now) :
           NamesFirst(content.s, id) =>
               LET r == WebhookResult(content, amount, later)
               IN  IF ~Stored(id)
                   THEN /\ r.resp = MsgResp(200, "false", "Order not found")
                        /\ r.db = db
                   ELSE LET o == Own(db, id)
                        IN  /\ OnlyFulfils(r, id)
                            /\ Completed(o) =>
                                   r.resp = MsgResp(200, "true",
                                                    "Order already completed")
                            /\ (~Completed(o)
                                /\ ~AmountSatisfies(amount, o.amount)) =>
                                   r.resp = MsgResp(200, "false",
                                                    "Insufficient amount")
                            /\ (~Completed(o) /\ privateKey
                                /\ AmountSatisfies(amount, o.amount)) =>
                                   /\ Completed(Own(r.db, id))
                                   /\ Own(r.db, id).licenseKey
                                          = MkKey(Payload(o.machineId.s,
                                                          o.type, now))

\* a webhook fulfilled the order created under an id and its mail waits,
\* beside an order under the other id that nothing has touched
C21_Witness ==
    \E i \in 1..Len(inflight), id \in OrderIdSet :
        /\ inflight[i].op = "webhook"
        /\ Stored(inflight[i].orderId)
        /\ IsOrderId(inflight[i].orderId)
        /\ Own(db, inflight[i].orderId).licenseKey = inflight[i].licenseKey
        /\ id # inflight[i].orderId
        /\ Stored(id)
        /\ Own(db, id).status = "PENDING"

====
